---- MODULE Spec2Model ----
(***************************************************************************)
(* kube-static-egress-controller: the AWS provider's Ensure state machine, *)
(* the route aggregation (GenerateRoutes) and the stack template it        *)
(* submits to CloudFormation.                                              *)
(***************************************************************************)
EXTENDS Integers, Sequences, FiniteSets, TLC

(***************************************************************************)
(* Bounds of the model.                                                    *)
(***************************************************************************)
\* number of CIDR blocks of CIDRPool the inputs of GenerateRoutes draw from
NumCIDRs == 3
\* number of Resources (configuration objects) of a GenerateRoutes input
MaxResources == 2
\* number of blocks a GenerateRoutes input holds in all
MaxEntries == 4

(***************************************************************************)
(* Strings are sequences of one-character strings, so that formatting,     *)
(* comparison and replacement are computed and not assumed.                *)
(***************************************************************************)
DigitChars == <<"0", "1", "2", "3", "4", "5", "6", "7", "8", "9">>

\* strconv.Itoa / %d
RECURSIVE Itoa(_)
Itoa(n) == IF n < 10 THEN <<DigitChars[n + 1]>>
           ELSE Itoa(n \div 10) \o <<DigitChars[(n % 10) + 1]>>

\* the byte value of the characters that occur in a CIDR string
CharCode(ch) ==
    CASE ch = "." -> 46
      [] ch = "/" -> 47
      [] ch = "x" -> 120
      [] ch = "y" -> 121
      [] ch = "z" -> 122
      [] OTHER -> 48 + (CHOOSE d \in 0..9 : DigitChars[d + 1] = ch)

\* Go's < on strings: bytewise lexicographic order
RECURSIVE StrLess(_, _)
StrLess(a, b) ==
    IF b = <<>> THEN FALSE
    ELSE IF a = <<>> THEN TRUE
    ELSE IF CharCode(Head(a)) # CharCode(Head(b))
         THEN CharCode(Head(a)) < CharCode(Head(b))
    ELSE StrLess(Tail(a), Tail(b))

\* strings.Replace(s, old, new, -1) for a one-character old
RECURSIVE ReplaceAll(_, _, _)
ReplaceAll(s, old, new) ==
    IF s = <<>> THEN <<>>
    ELSE <<(IF Head(s) = old THEN new ELSE Head(s))>> \o ReplaceAll(Tail(s), old, new)

(***************************************************************************)
(* net.IPNet (IPv4): the network address as four octets, and the number of *)
(* leading one bits of the mask.  net.ParseCIDR returns the address masked.*)
(***************************************************************************)
IPNet(a, b, c, d, ones) == [ip |-> <<a, b, c, d>>, ones |-> ones]

IPToInt(ip) == ((ip[1] * 256 + ip[2]) * 256 + ip[3]) * 256 + ip[4]

\* (*net.IPNet).String
CIDRString(n) ==
    Itoa(n.ip[1]) \o <<".">> \o Itoa(n.ip[2]) \o <<".">> \o Itoa(n.ip[3]) \o <<".">>
        \o Itoa(n.ip[4]) \o <<"/">> \o Itoa(n.ones)

\* cidr.AddressCount
AddressCount(n) == 2 ^ (32 - n.ones)

\* cidr.AddressRange: first and last address of the block
AddressRange(n) == [first |-> IPToInt(n.ip), last |-> IPToInt(n.ip) + AddressCount(n) - 1]

\* (*net.IPNet).Contains: the address masked equals the network address
Contains(n, addr) == (addr \div AddressCount(n)) * AddressCount(n) = IPToInt(n.ip)

\* the blocks the inputs are drawn from (all as net.ParseCIDR returns them)
CIDRPool == << IPNet(10, 0, 0, 0, 16), IPNet(10, 0, 0, 0, 17), IPNet(10, 1, 0, 0, 17),
               IPNet(10, 0, 0, 0, 8), IPNet(10, 0, 128, 0, 17), IPNet(9, 0, 0, 0, 8) >>

PoolSize == IF NumCIDRs < Len(CIDRPool) THEN NumCIDRs ELSE Len(CIDRPool)
CIDRs == {CIDRPool[i] : i \in 1..PoolSize}
Resources == 1..MaxResources

\* map[provider.Resource]map[string]*net.IPNet: a Resource has an entry iff its
\* set is non-empty (the controller never stores an empty set)
ConfigsOver(res, blocks) == [res -> SUBSET blocks]
CacheKeys(configs) == {r \in DOMAIN configs : configs[r] # {}}
\* len(configs)
CacheLen(configs) == Cardinality(CacheKeys(configs))
RECURSIVE SumOver(_, _)
SumOver(configs, rs) ==
    IF rs = {} THEN 0
    ELSE LET r == CHOOSE x \in rs : TRUE
         IN  Cardinality(configs[r]) + SumOver(configs, rs \ {r})
EntryCount(configs) == SumOver(configs, DOMAIN configs)

(***************************************************************************)
(* GenerateRoutes                                                          *)
(***************************************************************************)
\* a sort that puts the larger blocks first
RouteLessDescending(a, b) ==
    IF AddressCount(a) = AddressCount(b)
    THEN StrLess(CIDRString(a), CIDRString(b))
    ELSE AddressCount(a) > AddressCount(b)
\* the comparison of the sort in GenerateRoutes
RouteLess(a, b) ==
    IF AddressCount(a) = AddressCount(b)
    THEN StrLess(CIDRString(a), CIDRString(b))
    ELSE AddressCount(a) < AddressCount(b)

\* insert x into the sorted sequence s (sort.Slice on fewer than 12 elements is
\* an insertion sort: an element moves left while it is less than its neighbour)
RECURSIVE SortInsert(_, _)
SortInsert(s, x) ==
    IF s = <<>> THEN <<x>>
    ELSE IF RouteLess(x, s[Len(s)]) THEN SortInsert(SubSeq(s, 1, Len(s) - 1), x) \o <<s[Len(s)]>>
    ELSE Append(s, x)

\* no sort: the blocks stay in the order of the iteration
NoSort(s) == s
RECURSIVE SortCIDRs(_)
SortCIDRs(s) == IF s = <<>> THEN <<>> ELSE SortInsert(SortCIDRs(SubSeq(s, 1, Len(s) - 1)), s[Len(s)])

\* networkContained
networkContained(subBlock, superBlock) ==
    /\ Contains(superBlock, AddressRange(subBlock).first)
    /\ Contains(superBlock, AddressRange(subBlock).last)

\* the entries of one inner map in the iteration order cidrOrder
RECURSIVE FlattenOne(_, _)
FlattenOne(set, cidrOrder) ==
    IF cidrOrder = <<>> THEN <<>>
    ELSE (IF Head(cidrOrder) \in set THEN <<Head(cidrOrder)>> ELSE <<>>)
            \o FlattenOne(set, Tail(cidrOrder))

\* lines 13-18: the blocks of all Resources, appended in map iteration order
RECURSIVE Flatten(_, _, _)
Flatten(configs, resOrder, cidrOrder) ==
    IF resOrder = <<>> THEN <<>>
    ELSE FlattenOne(configs[Head(resOrder)], cidrOrder) \o Flatten(configs, Tail(resOrder), cidrOrder)

\* a filter that compares a block with every other entry of the list
KeptRoutesAgainstAll(sorted) ==
    { CIDRString(sorted[i]) : i \in { k \in 1..Len(sorted) :
          ~ \E j \in (1..Len(sorted)) \ {k} : networkContained(sorted[k], sorted[j]) } }
\* lines 29-48 on the sorted list
KeptRoutes(sorted) ==
    { CIDRString(sorted[i]) : i \in { k \in 1..Len(sorted) :
          ~ \E j \in (k + 1)..Len(sorted) : networkContained(sorted[k], sorted[j]) } }

GenerateRoutesIn(configs, resOrder, cidrOrder) ==
    KeptRoutes(SortCIDRs(Flatten(configs, resOrder, cidrOrder)))

\* all orders in which a map over the set s can be iterated
Perms(s) == { p \in [1..Cardinality(s) -> s] : \A x \in s : \E i \in DOMAIN p : p[i] = x }

(***************************************************************************)
(* The AWS provider: configuration, tags, topology and the stack template  *)
(***************************************************************************)
clusterIDTagPrefix == "kubernetes.io/cluster/"
clusterID == "cluster-x"
controllerID == "controller-x"
staticLagacyStackName == "egress-static-nat"
kubernetesApplicationTagKey == "kubernetes:application"
resourceLifecycleOwned == "owned"
tagDefaultAZKeyRouteTableID == "AvailabilityZone"
tagDefaultTypeValueRouteTableID == "dmz"
availabilityZones == <<"eu-central-1a", "eu-central-1b">>
natCidrBlocks == <<"172.31.64.0/28", "172.31.64.16/28">>

\* the name a new stack gets
normalizeStackName(id) == "egress-static-nat-" \o id

\* a merge in which the earlier map wins
MergeFirstWins(a, b) ==
    [k \in DOMAIN a \cup DOMAIN b |-> IF k \in DOMAIN a THEN a[k] ELSE b[k]]
\* mergeTags(a, b)
mergeTags(a, b) ==
    [k \in DOMAIN a \cup DOMAIN b |-> IF k \in DOMAIN b THEN b[k] ELSE a[k]]

\* tagMapToCloudformationTags: one Tag per key
tagMapToCloudformationTags(tags) == {[Key |-> k, Value |-> tags[k]] : k \in DOMAIN tags}

\* the ownership tags of lines 219-222 and 626-629
OwnershipTags ==
    (clusterIDTagPrefix \o clusterID) :> resourceLifecycleOwned
        @@ kubernetesApplicationTagKey :> controllerID

\* a match on the tag keys alone
HasTagKeys(expected, tags) ==
    /\ ~(Cardinality(DOMAIN expected) > Cardinality(tags))
    /\ \A k \in DOMAIN expected : \E t \in tags : t.Key = k
\* cloudformationHasTags
cloudformationHasTags(expected, tags) ==
    /\ ~(Cardinality(DOMAIN expected) > Cardinality(tags))
    /\ \A k \in DOMAIN expected : \E t \in tags : t.Key = k /\ t.Value = expected[k]

\* findTagByKey
findTagByKey(tags, key) == IF key \in DOMAIN tags THEN tags[key] ELSE ""

\* routeTableZone
routeTableZone(rt) ==
    IF tagDefaultAZKeyRouteTableID \in DOMAIN rt.Tags
    THEN [zone |-> rt.Tags[tagDefaultAZKeyRouteTableID], ok |-> TRUE]
    ELSE [zone |-> "", ok |-> FALSE]

\* zoneIndex (0-based)
zoneIndex(zones, zone) ==
    IF \E i \in 1..Len(zones) : zones[i] = zone
    THEN [index |-> (CHOOSE i \in 1..Len(zones) :
                        zones[i] = zone /\ \A j \in 1..(i - 1) : zones[j] # zone) - 1,
          ok |-> TRUE]
    ELSE [index |-> 0, ok |-> FALSE]

\* the less function of the sort.SliceStable of lines 257-294
RouteTableLess(rti, rtj) ==
    LET zi == routeTableZone(rti)
        zj == routeTableZone(rtj)
        standardi == findTagByKey(rti.Tags, "Name") = tagDefaultTypeValueRouteTableID \o "-" \o zi.zone
        standardj == findTagByKey(rtj.Tags, "Name") = tagDefaultTypeValueRouteTableID \o "-" \o zj.zone
        zxi == zoneIndex(availabilityZones, zi.zone)
        zxj == zoneIndex(availabilityZones, zj.zone)
    IN  IF ~zi.ok THEN FALSE
        ELSE IF ~zj.ok THEN TRUE
        ELSE IF ~standardi THEN FALSE
        ELSE IF standardi /\ ~standardj THEN TRUE
        ELSE IF ~zxi.ok THEN FALSE
        ELSE IF ~zxj.ok THEN TRUE
        ELSE zxi.index < zxj.index

\* sort.SliceStable on fewer than 20 elements: a stable insertion sort
RECURSIVE RTInsert(_, _)
RTInsert(s, x) ==
    IF s = <<>> THEN <<x>>
    ELSE IF RouteTableLess(x, s[Len(s)]) THEN RTInsert(SubSeq(s, 1, Len(s) - 1), x) \o <<s[Len(s)]>>
    ELSE Append(s, x)

RECURSIVE SortRouteTables(_)
SortRouteTables(s) ==
    IF s = <<>> THEN <<>> ELSE RTInsert(SortRouteTables(SubSeq(s, 1, Len(s) - 1)), s[Len(s)])

\* "AZ%dRouteTableIDParameter"
RouteTableParamName(i) == <<"AZ">> \o Itoa(i) \o <<"RouteTableIDParameter">>

\* parameters that leave out the tables of an unrecognized zone
RECURSIVE RouteTableParamsSkipping(_, _)
RouteTableParamsSkipping(rt, i) ==
    IF i > Len(rt) THEN [err |-> "", order |-> <<>>, zoneIndexes |-> <<>>, tableID |-> <<>>]
    ELSE LET z == routeTableZone(rt[i])
             zx == zoneIndex(availabilityZones, z.zone)
             rest == RouteTableParamsSkipping(rt, i + 1)
             name == RouteTableParamName(i)
         IN  IF ~z.ok \/ ~zx.ok THEN rest
             ELSE [err |-> "",
                   order |-> <<name>> \o rest.order,
                   zoneIndexes |-> (name :> zx.index) @@ rest.zoneIndexes,
                   tableID |-> (name :> rt[i].RouteTableId) @@ rest.tableID]

\* lines 296-317: the parameters of the sorted route tables, or the error of an
\* unrecognized zone.  A table without zone tag is skipped but keeps its ordinal.
RECURSIVE RouteTableParams(_, _)
RouteTableParams(rt, i) ==
    IF i > Len(rt) THEN [err |-> "", order |-> <<>>, zoneIndexes |-> <<>>, tableID |-> <<>>]
    ELSE LET z == routeTableZone(rt[i])
             zx == zoneIndex(availabilityZones, z.zone)
             rest == RouteTableParams(rt, i + 1)
             name == RouteTableParamName(i)
         IN  IF ~z.ok THEN rest
             ELSE IF ~zx.ok
                  THEN [err |-> "unrecognized availability zone", order |-> <<>>,
                        zoneIndexes |-> <<>>, tableID |-> <<>>]
             ELSE IF rest.err # "" THEN rest
             ELSE [err |-> "",
                   order |-> <<name>> \o rest.order,
                   zoneIndexes |-> (name :> zx.index) @@ rest.zoneIndexes,
                   tableID |-> (name :> rt[i].RouteTableId) @@ rest.tableID]

(***************************************************************************)
(* The template: its Parameters and Resources.  A resource name is the     *)
(* sequence of its literal prefix and the characters formatted after it.   *)
(***************************************************************************)
\* a property value: a JSON string, a {"Ref": name} object, or absent
StrVal(s) == [kind |-> "string", val |-> s]
RefVal(name) == [kind |-> "ref", val |-> name]
NoVal == [kind |-> "absent", val |-> <<>>]

Res(type, dest, nat, table) ==
    [Type |-> type, DestinationCidrBlock |-> dest, NatGatewayId |-> nat, RouteTableId |-> table]

\* lines 387-435, the resources of availability zone i that a route refers to or
\* that are routes themselves (the EIP, the subnet, its route table and the
\* association neither carry a destination nor are referred to by a route)
ZoneResources(i) ==
    (<<"NATGateway">> \o Itoa(i)) :> Res("AWS::EC2::NatGateway", NoVal, NoVal, NoVal)
    @@ (<<"NATSubnetRoute">> \o Itoa(i)) :>
            Res("AWS::EC2::Route", StrVal(<<"0", ".", "0", ".", "0", ".", "0", "/", "0">>), NoVal,
                RefVal(<<"NATSubnetRouteTable">> \o Itoa(i)))

\* lines 387-413: NATGateway<i> is in the subnet NATSubnet<i>, whose
\* AvailabilityZone is availabilityZones[i-1]
NATGatewayZone(i) == availabilityZones[i]

\* lines 386-436
RECURSIVE AllZoneResources(_)
AllZoneResources(i) == IF i = 0 THEN <<>> ELSE ZoneResources(i) @@ AllZoneResources(i - 1)

\* lines 440-441
CleanCidrEntry(cidrEntry) == ReplaceAll(ReplaceAll(cidrEntry, "/", "y"), ".", "x")

\* a resource name that leaves the ordinal of the route table parameter out
RouteResourceNameOfBlock(i, cidrEntry) == <<"RouteToNAT">> \o <<"z">> \o CleanCidrEntry(cidrEntry)

\* "RouteToNAT%dz%s"
RouteResourceName(i, cidrEntry) == <<"RouteToNAT">> \o Itoa(i) \o <<"z">> \o CleanCidrEntry(cidrEntry)

\* lines 442-456: the routes of one aggregated block, for the route table
\* parameters 1..i (AddResource on a name that exists replaces the resource)
RECURSIVE EntryRoutes(_, _, _, _)
EntryRoutes(cidrEntry, paramOrder, zoneIndexes, i) ==
    IF i = 0 THEN <<>>
    ELSE (RouteResourceName(i, cidrEntry) :>
              Res("AWS::EC2::Route", StrVal(cidrEntry),
                  RefVal(<<"NATGateway">> \o Itoa(zoneIndexes[paramOrder[i]] + 1)),
                  RefVal(paramOrder[i])))
         @@ EntryRoutes(cidrEntry, paramOrder, zoneIndexes, i - 1)

\* lines 439-457: one route per aggregated block and route table parameter.
\* Two blocks never share a resource name (the replacement of "/" and "." is
\* one-to-one on CIDR strings), so the order of the blocks does not matter.
RECURSIVE RouteResources(_, _, _)
RouteResources(nets, paramOrder, zoneIndexes) ==
    IF nets = {} THEN <<>>
    ELSE LET cidrEntry == CHOOSE n \in nets : TRUE
         IN  EntryRoutes(cidrEntry, paramOrder, zoneIndexes, Len(paramOrder))
                @@ RouteResources(nets \ {cidrEntry}, paramOrder, zoneIndexes)

\* generateTemplate and json.Marshal of it; nets is GenerateRoutes(configs).
\* The route table parameters are declared inside the loop over the routes.
generateTemplate(nets, paramOrder, zoneIndexes) ==
    [kind |-> "json",
     Parameters |-> {<<"VPCIDParameter">>, <<"InternetGatewayIDParameter">>}
                        \cup (IF nets = {} THEN {} ELSE {paramOrder[i] : i \in 1..Len(paramOrder)}),
     Resources |-> RouteResources(nets, paramOrder, zoneIndexes)
                        @@ AllZoneResources(Len(availabilityZones))]

(***************************************************************************)
(* The template as generateTemplate builds and serializes it: the entries  *)
(* of a Go map are kept in the order they were added, which json.Marshal   *)
(* replaces by the order of the keys.                                      *)
(***************************************************************************)
Entry(name, value) == [name |-> name, value |-> value]

\* m[name] = value, and AddResource: the entry of the name is replaced when
\* the map has one
RECURSIVE AddEntry(_, _)
AddEntry(entries, e) ==
    IF entries = <<>> THEN <<e>>
    ELSE IF Head(entries).name = e.name THEN <<e>> \o Tail(entries)
    ELSE <<Head(entries)>> \o AddEntry(Tail(entries), e)

RECURSIVE AddAll(_, _)
AddAll(entries, adds) ==
    IF adds = <<>> THEN entries ELSE AddAll(AddEntry(entries, Head(adds)), Tail(adds))

\* lines 386-436: the resources added for the zones 1..n, in the order of the code
RECURSIVE ZoneAdds(_)
ZoneAdds(n) ==
    IF n = 0 THEN <<>>
    ELSE ZoneAdds(n - 1)
         \o << Entry(<<"NATGateway">> \o Itoa(n), ZoneResources(n)[<<"NATGateway">> \o Itoa(n)]),
               Entry(<<"NATSubnetRoute">> \o Itoa(n),
                     ZoneResources(n)[<<"NATSubnetRoute">> \o Itoa(n)]) >>

\* routes that go through the NAT gateway of the ordinal of their parameter
RECURSIVE RouteAddsByOrdinal(_, _, _, _)
RouteAddsByOrdinal(cidrEntry, paramOrder, zoneIndexes, i) ==
    IF i > Len(paramOrder) THEN <<>>
    ELSE << Entry(RouteResourceName(i, cidrEntry),
                  Res("AWS::EC2::Route", StrVal(cidrEntry),
                      RefVal(<<"NATGateway">> \o Itoa(i)),
                      RefVal(paramOrder[i]))) >>
         \o RouteAddsByOrdinal(cidrEntry, paramOrder, zoneIndexes, i + 1)

\* lines 442-456 for one block: the route of each route table parameter from
\* the i-th on
RECURSIVE RouteAdds(_, _, _, _)
RouteAdds(cidrEntry, paramOrder, zoneIndexes, i) ==
    IF i > Len(paramOrder) THEN <<>>
    ELSE << Entry(RouteResourceName(i, cidrEntry),
                  Res("AWS::EC2::Route", StrVal(cidrEntry),
                      RefVal(<<"NATGateway">> \o Itoa(zoneIndexes[paramOrder[i]] + 1)),
                      RefVal(paramOrder[i]))) >>
         \o RouteAdds(cidrEntry, paramOrder, zoneIndexes, i + 1)

\* lines 443-446 for one block: the parameter declared for each route table
\* parameter, with its description "Route Table ID No %d"
ParamAdds(paramOrder) ==
    [i \in 1..Len(paramOrder) |->
        Entry(paramOrder[i], <<"Route Table ID No ">> \o Itoa(i))]

\* lines 439-457: the loop over the aggregated routes in the order netOrder
RECURSIVE LoopResourceAdds(_, _, _)
LoopResourceAdds(netOrder, paramOrder, zoneIndexes) ==
    IF netOrder = <<>> THEN <<>>
    ELSE RouteAdds(Head(netOrder), paramOrder, zoneIndexes, 1)
         \o LoopResourceAdds(Tail(netOrder), paramOrder, zoneIndexes)
RECURSIVE LoopParamAdds(_, _)
LoopParamAdds(netOrder, paramOrder) ==
    IF netOrder = <<>> THEN <<>>
    ELSE ParamAdds(paramOrder) \o LoopParamAdds(Tail(netOrder), paramOrder)

\* the order of two map keys in which the literal parts of a name are single
\* tokens: the first byte, and the rank among the tokens that share it
TokenCode(tok) ==
    CASE tok = "AZ" -> 65000
      [] tok = "InternetGatewayIDParameter" -> 73000
      [] tok = "NATGateway" -> 78001
      [] tok = "NATSubnetRoute" -> 78002
      [] tok = "RouteTableIDParameter" -> 82001
      [] tok = "RouteToNAT" -> 82002
      [] tok = "VPCIDParameter" -> 86000
      [] OTHER -> 1000 * CharCode(tok)
RECURSIVE KeyLess(_, _)
KeyLess(a, b) ==
    IF b = <<>> THEN FALSE
    ELSE IF a = <<>> THEN TRUE
    ELSE IF TokenCode(Head(a)) # TokenCode(Head(b))
         THEN TokenCode(Head(a)) < TokenCode(Head(b))
    ELSE KeyLess(Tail(a), Tail(b))

RECURSIVE KeyInsert(_, _)
KeyInsert(s, e) ==
    IF s = <<>> THEN <<e>>
    ELSE IF KeyLess(e.name, s[Len(s)].name)
         THEN KeyInsert(SubSeq(s, 1, Len(s) - 1), e) \o <<s[Len(s)]>>
    ELSE Append(s, e)
RECURSIVE SortKeys(_)
SortKeys(s) ==
    IF s = <<>> THEN <<>> ELSE KeyInsert(SortKeys(SubSeq(s, 1, Len(s) - 1)), s[Len(s)])

\* a serialization that writes the entries of a map in the order they are in
MarshalInMapOrder(entries) == entries
\* json.Marshal of a map: the entries in the order of their keys
MarshalMap(entries) == SortKeys(entries)

\* generateTemplate for the aggregated routes nets, ranged over in the order
\* netOrder, and json.Marshal of the template
generateTemplateIn(netOrder, paramOrder, zoneIndexes) ==
    [Parameters |->
        MarshalMap(AddAll(<< Entry(<<"VPCIDParameter">>, <<"VPC ID">>),
                             Entry(<<"InternetGatewayIDParameter">>, <<"Internet Gateway ID">>) >>,
                          LoopParamAdds(netOrder, paramOrder))),
     Resources |->
        MarshalMap(AddAll(ZoneAdds(Len(availabilityZones)),
                          LoopResourceAdds(netOrder, paramOrder, zoneIndexes)))]

\* a template body that is no JSON document
GarbageTemplate == [kind |-> "garbage", Parameters |-> {}, Resources |-> <<>>]
\* the layout of earlier versions: the destination of a route is a parameter reference
OldLayoutTemplate ==
    [kind |-> "json",
     Parameters |-> {<<"VPCIDParameter">>, <<"InternetGatewayIDParameter">>,
                     RouteTableParamName(1), <<"DestinationCidrBlock1">>},
     Resources |-> (RouteResourceName(1, CIDRString(CIDRPool[1]))) :>
                        Res("AWS::EC2::Route", RefVal(<<"DestinationCidrBlock1">>),
                            RefVal(<<"NATGateway", "1">>), RefVal(RouteTableParamName(1)))
                    @@ AllZoneResources(1)]

\* encoding/json into the struct of lines 174-181: a string field takes a JSON
\* string, stays "" when absent and makes Unmarshal fail on an object
UnmarshalFails(template) ==
    \/ template.kind # "json"
    \/ \E nm \in DOMAIN template.Resources :
          template.Resources[nm].DestinationCidrBlock.kind = "ref"

\* a parse that takes the destination of every route of the template
getCIDRsOfAllRoutes(template) ==
    IF UnmarshalFails(template) THEN {}
    ELSE { template.Resources[nm].DestinationCidrBlock.val :
             nm \in { r \in DOMAIN template.Resources :
                        template.Resources[r].Type = "AWS::EC2::Route" } }
\* getCIDRsFromTemplate
getCIDRsFromTemplate(template) ==
    IF UnmarshalFails(template) THEN {}
    ELSE { template.Resources[nm].DestinationCidrBlock.val :
             nm \in { r \in DOMAIN template.Resources :
                        /\ r[1] = "RouteToNAT"
                        /\ template.Resources[r].Type = "AWS::EC2::Route" } }

\* a comparison with the membership test negated
stringSetEqualNegated(a, b) ==
    IF Cardinality(a) # Cardinality(b) THEN FALSE
    ELSE \A ak \in a : ak \notin b
\* stringSetEqual
stringSetEqual(a, b) ==
    IF Cardinality(a) # Cardinality(b) THEN FALSE
    ELSE \A ak \in a : ak \in b

(***************************************************************************)
(* The cloud: the stacks CloudFormation holds, and the EC2 topology        *)
(***************************************************************************)
\* the statuses waitForStack tells apart, and the ones in progress
SuccessStatuses == {"UPDATE_COMPLETE", "CREATE_COMPLETE", "DELETE_COMPLETE"}
FailureStatuses == {"CREATE_FAILED", "DELETE_FAILED", "ROLLBACK_COMPLETE", "ROLLBACK_FAILED",
                    "UPDATE_ROLLBACK_COMPLETE", "UPDATE_ROLLBACK_FAILED"}
UpdatableStatuses == {"CREATE_COMPLETE", "UPDATE_COMPLETE", "UPDATE_ROLLBACK_COMPLETE"}

Stack(name, tags, status, body) ==
    [StackName |-> name, Tags |-> tags, StackStatus |-> status, TemplateBody |-> body,
     RollbackBody |-> GarbageTemplate]
\* cftypes.Stack{}: StackName is nil (no stack of the cloud has an empty name)
NilStack == Stack("", {}, "", GarbageTemplate)

\* a stack of another controller of the same cluster
ForeignStack ==
    Stack("other-app",
          tagMapToCloudformationTags((clusterIDTagPrefix \o clusterID) :> resourceLifecycleOwned
                                        @@ kubernetesApplicationTagKey :> "other-controller"),
          "CREATE_COMPLETE", GarbageTemplate)
\* a stack of a version that named it statically and set no tags
LegacyStack == Stack(staticLagacyStackName, {}, "CREATE_COMPLETE", OldLayoutTemplate)
\* a stack this controller created for the first block of the pool, with two
\* zone-tagged route tables
ManagedStack ==
    Stack(normalizeStackName(clusterID), tagMapToCloudformationTags(OwnershipTags),
          "CREATE_COMPLETE",
          generateTemplate({CIDRString(CIDRPool[1])},
                           <<RouteTableParamName(1), RouteTableParamName(2)>>,
                           RouteTableParamName(1) :> 0 @@ RouteTableParamName(2) :> 1))

RouteTable(id, tags) == [RouteTableId |-> id, Tags |-> tags]
TopoStandard ==
    [vpcs |-> <<[VpcId |-> "vpc-1", IsDefault |-> TRUE]>>,
     igws |-> <<"igw-1">>,
     routeTables |-> << RouteTable("rtb-b", tagDefaultAZKeyRouteTableID :> "eu-central-1b"
                                                @@ "Name" :> "dmz-eu-central-1b"),
                        RouteTable("rtb-a", tagDefaultAZKeyRouteTableID :> "eu-central-1a"
                                                @@ "Name" :> "dmz-eu-central-1a") >>]
TopoNoZoneTag ==
    [vpcs |-> <<[VpcId |-> "vpc-1", IsDefault |-> TRUE]>>,
     igws |-> <<"igw-1">>,
     routeTables |-> << RouteTable("rtb-x", <<>>) >>]
TopoUnknownZone ==
    [vpcs |-> <<[VpcId |-> "vpc-1", IsDefault |-> TRUE]>>,
     igws |-> <<"igw-1">>,
     routeTables |-> << RouteTable("rtb-a", tagDefaultAZKeyRouteTableID :> "eu-central-1a"
                                                @@ "Name" :> "dmz-eu-central-1a"),
                        RouteTable("rtb-w", tagDefaultAZKeyRouteTableID :> "eu-west-1c") >>]
Topologies == {TopoStandard, TopoNoZoneTag, TopoUnknownZone}

\* extra tags of the command line: one of the user's own, and the two
\* ownership keys with other values
ClobberingTags ==
    "foo" :> "bar" @@ (clusterIDTagPrefix \o clusterID) :> "shared"
        @@ kubernetesApplicationTagKey :> "someone-else"

\* index of the stack named name, 0 if there is none
StackIndex(stacks, name) ==
    IF \E i \in 1..Len(stacks) : stacks[i].StackName = name
    THEN CHOOSE i \in 1..Len(stacks) : stacks[i].StackName = name
    ELSE 0

RemoveAt(s, i) == SubSeq(s, 1, i - 1) \o SubSeq(s, i + 1, Len(s))

(***************************************************************************)
(* One call of the API, as the provider sees and the model records it      *)
(***************************************************************************)
Call(op, name, err) ==
    [op |-> op, StackName |-> name, err |-> err, Tags |-> {}, Parameters |-> <<>>,
     EnableTerminationProtection |-> FALSE]
StackCall(op, spec, err) ==
    [op |-> op, StackName |-> spec.name, err |-> err, Tags |-> spec.tags,
     Parameters |-> spec.parameters,
     EnableTerminationProtection |-> spec.stackTerminationProtection]
ProtectionCall(name, enable, err) ==
    [op |-> "UpdateTerminationProtection", StackName |-> name, err |-> err, Tags |-> {},
     Parameters |-> <<>>, EnableTerminationProtection |-> enable]

\* the API errors the model injects into an Ensure call: the call that fails,
\* and for the stack calls whether the failure is one of the two races
Faults == {"none", "DescribeStacks", "DescribeVpcs", "DescribeInternetGateways",
           "DescribeRouteTables", "GetTemplate", "UpdateTerminationProtection",
           "CreateStack", "CreateStack:AlreadyExists", "UpdateStack",
           "UpdateStack:DoesNotExist", "DeleteStack", "DeleteStack:DoesNotExist"}

(***************************************************************************)
(* State.  gr*: one call of GenerateRoutes.  The rest: an AWSProvider (its *)
(* fields dry, stackTerminationProtection, additionalStackTags, vpcID), the*)
(* cloud it talks to (ec2, stacks), the Ensure call in progress or last    *)
(* returned, and the counters that bound a behaviour.                      *)
(***************************************************************************)
VARIABLES grConfigs, grOrder, grResult, grDone,
          dry, stackTerminationProtection, additionalStackTags, vpcID,
          ec2, stacks,
          pc, configs, calls, result, waitName, waitKind, elapsed,
          ensureCalls, faultsInjected

\* tpl*: one call of generateTemplate.  The rest: an EgressController in Run
\* (its position runPc, its field configsCache), the context of Run
\* (canceled), the configuration source (pending: the event each watcher
\* goroutine is blocked sending; listed: the listing it returned), the call
\* of provider.Ensure in progress or last returned (inFlight, ensureArg,
\* ensureErr), and what the controller has seen of each Resource (bootCache,
\* latest).
VARIABLES tplConfigs, tplOrder, tplResult, tplDone,
          runPc, configsCache, canceled, pending, listed,
          inFlight, ensureArg, ensureErr, bootCache, latest

\* the field natCidrBlocks of the AWSProvider: the NAT CIDR blocks of the
\* command line, one for each availability zone when the flags match
VARIABLES pNatCidrBlocks

\* vpcFound: what one call of findVPC returned.  cmObject: the ConfigMap the
\* handler of the informer was called with last, and the kind of the handler
VARIABLES vpcFound, cmObject

\* the route tables of one call of generateStackSpec after its sort, and the
\* parameters made for them
VARIABLES tableParams

\* The goroutines of run (kube/configmap.go) and their channels.  mainPc: where
\* run is; quitsSent: the i of its loop.  initPc, initList: initSync and the
\* list it got.  watcherPc, results: WatchConfigMaps and the map it sends.
\* watchCH: the buffer of the channel.  mergerPc, mergerResult, mergerRes:
\* enterMerger, its map result and the slice res it sends.  providerPc,
\* providerBootstrap, resultCache, output: enterProvider and its locals.
VARIABLES mainPc, quitsSent, initPc, initList, watcherPc, results, watchCH,
          mergerPc, mergerResult, mergerRes,
          providerPc, providerBootstrap, resultCache, output

pipelineVars == <<mainPc, quitsSent, initPc, initList, watcherPc, results, watchCH,
                  mergerPc, mergerResult, mergerRes,
                  providerPc, providerBootstrap, resultCache, output>>
\* run was not called
NoPipeline ==
    /\ mainPc = "none"
    /\ quitsSent = 0
    /\ initPc = "none"
    /\ initList = <<>>
    /\ watcherPc = "none"
    /\ results = <<>>
    /\ watchCH = <<>>
    /\ mergerPc = "none"
    /\ mergerResult = <<>>
    /\ mergerRes = <<>>
    /\ providerPc = "none"
    /\ providerBootstrap = TRUE
    /\ resultCache = <<>>
    /\ output = <<>>

templateVars == <<tplConfigs, tplOrder, tplResult, tplDone, vpcFound, cmObject, tableParams>>
runVars == <<runPc, configsCache, canceled, pending, listed,
             inFlight, ensureArg, ensureErr, bootCache, latest>>
\* no single call of generateTemplate or findVPC and no informer is modelled
NoTemplateCall ==
    /\ tplConfigs = <<>>
    /\ tplOrder = <<>>
    /\ tplResult = <<>>
    /\ tplDone = TRUE
    /\ vpcFound = <<>>
    /\ tableParams = <<>>
    /\ cmObject = <<>>
\* no controller is modelled
NoController ==
    /\ runPc = "none"
    /\ configsCache = <<>>
    /\ canceled = FALSE
    /\ pending = <<>>
    /\ listed = <<>>
    /\ inFlight = 0
    /\ ensureArg = <<>>
    /\ ensureErr = ""
    /\ bootCache = <<>>
    /\ latest = <<>>
routeVars == <<grConfigs, grOrder, grResult, grDone>>
providerVars == <<dry, stackTerminationProtection, additionalStackTags, vpcID, pNatCidrBlocks>>
cloudVars == <<ec2, stacks>>
ensureVars == <<pc, configs, calls, result, waitName, waitKind, elapsed>>
boundVars == <<ensureCalls, faultsInjected>>
vars == <<routeVars, providerVars, pipelineVars, cloudVars, ensureVars, boundVars, templateVars, runVars>>

\* number of CIDR blocks of CIDRPool the caches handed to Ensure draw from
NumEnsureCIDRs == 2
\* number of status polls that fit into maxStackWaitTimeout
MaxPolls == 1
\* number of Ensure calls of a behaviour
MaxEnsureCalls == 2
\* number of API calls of a behaviour that fail for a reason outside the model
MaxFaults == 1

EnsureCIDRs == {CIDRPool[i] : i \in 1..(IF NumEnsureCIDRs < Len(CIDRPool) THEN NumEnsureCIDRs ELSE Len(CIDRPool))}
EnsureResources == {1}
EnsureConfigs == ConfigsOver(EnsureResources, EnsureCIDRs)

\* the orders in which one range over the cache and its inner maps can run
MapOrders(cfgs) ==
    [res : Perms(DOMAIN cfgs), cidr : Perms(UNION {cfgs[r] : r \in DOMAIN cfgs})]

\* the API operation a fault makes fail
FaultOp(fault) ==
    CASE fault \in {"CreateStack", "CreateStack:AlreadyExists"} -> "CreateStack"
      [] fault \in {"UpdateStack", "UpdateStack:DoesNotExist"} -> "UpdateStack"
      [] fault \in {"DeleteStack", "DeleteStack:DoesNotExist"} -> "DeleteStack"
      [] OTHER -> fault
\* the faults that can strike a call which makes the API calls of the log c
\* when none of them fails
FaultsOn(c) ==
    {"none"} \cup (IF faultsInjected < MaxFaults
                   THEN {f \in Faults \ {"none"} : \E i \in 1..Len(c) : c[i].op = FaultOp(f)}
                   ELSE {})
\* the fault was on the path of the call whose log is c
FaultHit(fault, c) == \E i \in 1..Len(c) : c[i].op = FaultOp(fault) /\ c[i].err # ""

GenerateRoutes(cfgs, order) == GenerateRoutesIn(cfgs, order.res, order.cidr)

(***************************************************************************)
(* Stack discovery                                                         *)
(***************************************************************************)
TaggedOnly(stack) == cloudformationHasTags(OwnershipTags, stack.Tags)
\* a match on either of the ownership tags
IsEgressStackOnAnyTag(stack) ==
    \/ \E k \in DOMAIN OwnershipTags :
          [Key |-> k, Value |-> OwnershipTags[k]] \in stack.Tags
    \/ stack.StackName = staticLagacyStackName
\* line 642
IsEgressStack(stack) ==
    \/ cloudformationHasTags(OwnershipTags, stack.Tags)
    \/ stack.StackName = staticLagacyStackName

\* lines 641-646: the first stack of a page that matches, if any
FirstMatch(page, previous) ==
    IF \E i \in 1..Len(page) : IsEgressStack(page[i])
    THEN page[CHOOSE i \in 1..Len(page) :
                 IsEgressStack(page[i]) /\ \A j \in 1..(i - 1) : ~IsEgressStack(page[j])]
    ELSE previous

\* the pages of DescribeStacks: the few stacks of the model come in one page
DescribeStacksPages == <<stacks>>

RECURSIVE ScanPages(_, _, _)
ScanPages(pages, i, found) ==
    IF i > Len(pages) THEN found ELSE ScanPages(pages, i + 1, FirstMatch(pages[i], found))

\* a discovery that finds no stack
getEgressStackNone(fault) ==
    IF fault = "DescribeStacks"
    THEN [err |-> "DescribeStacks failed", stack |-> NilStack,
          calls |-> <<Call("DescribeStacks", "", "failed")>>]
    ELSE [err |-> "", stack |-> NilStack,
          calls |-> [i \in 1..Len(DescribeStacksPages) |-> Call("DescribeStacks", "", "")]]
\* getEgressStack
getEgressStack(fault) ==
    IF fault = "DescribeStacks"
    THEN [err |-> "DescribeStacks failed", stack |-> NilStack,
          calls |-> <<Call("DescribeStacks", "", "failed")>>]
    ELSE [err |-> "", stack |-> ScanPages(DescribeStacksPages, 1, NilStack),
          calls |-> [i \in 1..Len(DescribeStacksPages) |-> Call("DescribeStacks", "", "")]]

(***************************************************************************)
(* generateStackSpec                                                       *)
(***************************************************************************)
\* a lookup that takes the first VPC of the account whenever it has one
findVPCFirst(fault) ==
    IF vpcID # "" THEN [err |-> "", id |-> vpcID, calls |-> <<>>]
    ELSE IF fault = "DescribeVpcs"
         THEN [err |-> "DescribeVpcs failed", id |-> "", calls |-> <<Call("DescribeVpcs", "", "failed")>>]
    ELSE IF Len(ec2.vpcs) >= 1
         THEN [err |-> "", id |-> ec2.vpcs[1].VpcId, calls |-> <<Call("DescribeVpcs", "", "")>>]
    ELSE [err |-> "VPC not found", id |-> "", calls |-> <<Call("DescribeVpcs", "", "")>>]
\* findVPC
findVPC(fault) ==
    IF vpcID # "" THEN [err |-> "", id |-> vpcID, calls |-> <<>>]
    ELSE IF fault = "DescribeVpcs"
         THEN [err |-> "DescribeVpcs failed", id |-> "", calls |-> <<Call("DescribeVpcs", "", "failed")>>]
    ELSE LET c == <<Call("DescribeVpcs", "", "")>>
         IN  IF Len(ec2.vpcs) = 1 THEN [err |-> "", id |-> ec2.vpcs[1].VpcId, calls |-> c]
             ELSE IF \E i \in 1..Len(ec2.vpcs) : ec2.vpcs[i].IsDefault
                  THEN [err |-> "",
                        id |-> ec2.vpcs[CHOOSE i \in 1..Len(ec2.vpcs) :
                                  ec2.vpcs[i].IsDefault
                                  /\ \A j \in 1..(i - 1) : ~ec2.vpcs[j].IsDefault].VpcId,
                        calls |-> c]
             ELSE [err |-> "VPC not found", id |-> "", calls |-> c]

\* lines 219-223
StackSpecTags == tagMapToCloudformationTags(mergeTags(additionalStackTags, OwnershipTags))

NilSpec ==
    [name |-> "", vpcID |-> "", internetGatewayID |-> "", tableID |-> <<>>,
     parameters |-> <<>>, timeoutInMinutes |-> 0, template |-> GarbageTemplate,
     stackTerminationProtection |-> FALSE, tags |-> {}]

\* the Parameters of a create or update: lines 520-526, 567-573 and routeTableParams
StackParameters(vpc, igw, tableID) ==
    (<<"VPCIDParameter">> :> vpc) @@ (<<"InternetGatewayIDParameter">> :> igw) @@ tableID

generateStackSpec(cfgs, fault, order) ==
    LET vpc == findVPC(fault)
        igwCall == Call("DescribeInternetGateways", "", IF fault = "DescribeInternetGateways" THEN "failed" ELSE "")
        rtCall == Call("DescribeRouteTables", "", IF fault = "DescribeRouteTables" THEN "failed" ELSE "")
        rt == SortRouteTables(ec2.routeTables)
        params == RouteTableParams(rt, 1)
    IN  IF vpc.err # "" THEN [err |-> vpc.err, calls |-> vpc.calls, spec |-> NilSpec]
        ELSE IF igwCall.err # ""
             THEN [err |-> "DescribeInternetGateways failed", calls |-> vpc.calls \o <<igwCall>>, spec |-> NilSpec]
        ELSE IF Len(ec2.igws) = 0
             THEN [err |-> "no Internet Gateways found", calls |-> vpc.calls \o <<igwCall>>, spec |-> NilSpec]
        ELSE IF rtCall.err # ""
             THEN [err |-> "DescribeRouteTables failed", calls |-> vpc.calls \o <<igwCall, rtCall>>, spec |-> NilSpec]
        ELSE IF params.err # ""
             THEN [err |-> params.err, calls |-> vpc.calls \o <<igwCall, rtCall>>, spec |-> NilSpec]
        ELSE [err |-> "",
              calls |-> vpc.calls \o <<igwCall, rtCall>>,
              spec |-> [name |-> normalizeStackName(clusterID),
                        vpcID |-> vpc.id,
                        internetGatewayID |-> ec2.igws[1],
                        tableID |-> params.tableID,
                        parameters |-> StackParameters(vpc.id, ec2.igws[1], params.tableID),
                        timeoutInMinutes |-> 10,
                        template |-> generateTemplate(GenerateRoutes(cfgs, order), params.order, params.zoneIndexes),
                        stackTerminationProtection |-> stackTerminationProtection,
                        tags |-> StackSpecTags]]

(***************************************************************************)
(* createCFStack, updateCFStack, deleteCFStack and Ensure.  Each gives the *)
(* calls made, the stacks afterwards and either the result or the wait it  *)
(* goes into.                                                              *)
(***************************************************************************)
Returned(c, res, st) ==
    [calls |-> c, result |-> res, stacks |-> st, pc |-> "idle", waitName |-> "", waitKind |-> ""]
Waiting(c, st, name, kind) ==
    [calls |-> c, result |-> "", stacks |-> st, pc |-> "wait", waitName |-> name, waitKind |-> kind]

\* errors.Wrap in Ensure, by the path the error comes from
Wrap(kind, err) ==
    IF err = "ok" THEN "ok"
    ELSE IF kind = "create" THEN "failed to create CF stack: " \o err
    ELSE IF kind = "update" THEN "failed to update CF stack: " \o err
    ELSE err

\* isDoesNotExistsErr: a ValidationError whose message has "does not exist"
isDoesNotExistsErr(err) == err = "does not exist"

\* a create path that returns the error of the API as it is
createStackErrorUntyped(err) == err
\* lines 582-587: the error createCFStack returns for the error of CreateStack
createStackError(err) ==
    IF err = "AlreadyExistsException" THEN "AlreadyExistsError" ELSE err
\* lines 546-551: the error updateCFStack returns for the error of UpdateStack
updateStackError(err) ==
    IF isDoesNotExistsErr(err) THEN "DoesNotExistError" ELSE err

createIgnoringDry(spec, fault) ==
    IF fault = "CreateStack"
    THEN Returned(<<StackCall("CreateStack", spec, "failed")>>, Wrap("create", createStackError("failed")), stacks)
    ELSE IF fault = "CreateStack:AlreadyExists" \/ StackIndex(stacks, spec.name) # 0
         THEN Returned(<<StackCall("CreateStack", spec, "AlreadyExistsException")>>,
                       Wrap("create", createStackError("AlreadyExistsException")), stacks)
    ELSE Waiting(<<StackCall("CreateStack", spec, "")>>,
                 Append(stacks, Stack(spec.name, spec.tags, "CREATE_IN_PROGRESS", spec.template)),
                 spec.name, "create")
\* a create that does not wait for the stack
createNoWait(spec, fault) ==
    IF dry THEN Returned(<<>>, "ok", stacks)
    ELSE IF fault = "CreateStack"
    THEN Returned(<<StackCall("CreateStack", spec, "failed")>>, Wrap("create", createStackError("failed")), stacks)
    ELSE IF fault = "CreateStack:AlreadyExists" \/ StackIndex(stacks, spec.name) # 0
         THEN Returned(<<StackCall("CreateStack", spec, "AlreadyExistsException")>>,
                       Wrap("create", createStackError("AlreadyExistsException")), stacks)
    ELSE Returned(<<StackCall("CreateStack", spec, "")>>, "ok",
                  Append(stacks, Stack(spec.name, spec.tags, "CREATE_IN_PROGRESS", spec.template)))
\* createCFStack
createCFStack(spec, fault) ==
    IF dry THEN Returned(<<>>, "ok", stacks)
    ELSE IF fault = "CreateStack"
    THEN Returned(<<StackCall("CreateStack", spec, "failed")>>, Wrap("create", createStackError("failed")), stacks)
    ELSE IF fault = "CreateStack:AlreadyExists" \/ StackIndex(stacks, spec.name) # 0
         THEN Returned(<<StackCall("CreateStack", spec, "AlreadyExistsException")>>,
                       Wrap("create", createStackError("AlreadyExistsException")), stacks)
    ELSE Waiting(<<StackCall("CreateStack", spec, "")>>,
                 Append(stacks, Stack(spec.name, spec.tags, "CREATE_IN_PROGRESS", spec.template)),
                 spec.name, "create")

\* the stack after an UpdateStack that CloudFormation accepted
Updated(stack, spec) ==
    [stack EXCEPT !.TemplateBody = spec.template, !.RollbackBody = stack.TemplateBody,
                  !.Tags = spec.tags, !.StackStatus = "UPDATE_IN_PROGRESS"]

\* an update that goes on when the termination protection could not be set
updateUnguarded(spec, fault) ==
    LET i == StackIndex(stacks, spec.name)
        prot == IF spec.stackTerminationProtection
                THEN <<ProtectionCall(spec.name, spec.stackTerminationProtection,
                                      IF fault = "UpdateTerminationProtection" THEN "failed" ELSE "")>>
                ELSE <<>>
    IN  IF dry THEN Returned(<<>>, "ok", stacks)
        ELSE IF fault = "UpdateStack"
             THEN Returned(prot \o <<StackCall("UpdateStack", spec, "failed")>>,
                           Wrap("update", updateStackError("failed")), stacks)
        ELSE IF fault = "UpdateStack:DoesNotExist" \/ i = 0
             THEN Returned(prot \o <<StackCall("UpdateStack", spec, "does not exist")>>,
                           Wrap("update", updateStackError("does not exist")), stacks)
        ELSE IF stacks[i].StackStatus \notin UpdatableStatuses
             THEN Returned(prot \o <<StackCall("UpdateStack", spec, "failed")>>,
                           Wrap("update", updateStackError("failed")), stacks)
        ELSE Waiting(prot \o <<StackCall("UpdateStack", spec, "")>>,
                     [stacks EXCEPT ![i] = Updated(stacks[i], spec)], spec.name, "update")
\* updateCFStack
updateCFStack(spec, fault) ==
    LET i == StackIndex(stacks, spec.name)
        prot == IF spec.stackTerminationProtection
                THEN <<ProtectionCall(spec.name, spec.stackTerminationProtection,
                                      IF fault = "UpdateTerminationProtection" THEN "failed" ELSE "")>>
                ELSE <<>>
    IN  IF dry THEN Returned(<<>>, "ok", stacks)
        ELSE IF prot # <<>> /\ prot[1].err # ""
             THEN Returned(prot, Wrap("update", "UpdateTerminationProtection failed"), stacks)
        ELSE IF fault = "UpdateStack"
             THEN Returned(prot \o <<StackCall("UpdateStack", spec, "failed")>>,
                           Wrap("update", updateStackError("failed")), stacks)
        ELSE IF fault = "UpdateStack:DoesNotExist" \/ i = 0
             THEN Returned(prot \o <<StackCall("UpdateStack", spec, "does not exist")>>,
                           Wrap("update", updateStackError("does not exist")), stacks)
        ELSE IF stacks[i].StackStatus \notin UpdatableStatuses
             THEN Returned(prot \o <<StackCall("UpdateStack", spec, "failed")>>,
                           Wrap("update", updateStackError("failed")), stacks)
        ELSE Waiting(prot \o <<StackCall("UpdateStack", spec, "")>>,
                     [stacks EXCEPT ![i] = Updated(stacks[i], spec)], spec.name, "update")

\* a delete that returns the "does not exist" of DeleteStack as an error
deleteStrict(stackName, fault) ==
    LET i == StackIndex(stacks, stackName)
        prot == IF stackTerminationProtection
                THEN <<ProtectionCall(stackName, FALSE,
                                      IF fault = "UpdateTerminationProtection" THEN "failed" ELSE "")>>
                ELSE <<>>
    IN  IF dry THEN Returned(<<>>, "ok", stacks)
        ELSE IF prot # <<>> /\ prot[1].err # ""
             THEN Returned(prot, "UpdateTerminationProtection failed", stacks)
        ELSE IF fault = "DeleteStack"
             THEN Returned(prot \o <<Call("DeleteStack", stackName, "failed")>>, "DeleteStack failed", stacks)
        ELSE IF fault = "DeleteStack:DoesNotExist" \/ i = 0
             THEN Returned(prot \o <<Call("DeleteStack", stackName, "does not exist")>>,
                           "does not exist", stacks)
        ELSE Waiting(prot \o <<Call("DeleteStack", stackName, "")>>,
                     [stacks EXCEPT ![i].StackStatus = "DELETE_IN_PROGRESS"], stackName, "delete")
\* deleteCFStack
deleteCFStack(stackName, fault) ==
    LET i == StackIndex(stacks, stackName)
        prot == IF stackTerminationProtection
                THEN <<ProtectionCall(stackName, FALSE,
                                      IF fault = "UpdateTerminationProtection" THEN "failed" ELSE "")>>
                ELSE <<>>
    IN  IF dry THEN Returned(<<>>, "ok", stacks)
        ELSE IF prot # <<>> /\ prot[1].err # ""
             THEN Returned(prot, "UpdateTerminationProtection failed", stacks)
        ELSE IF fault = "DeleteStack"
             THEN Returned(prot \o <<Call("DeleteStack", stackName, "failed")>>, "DeleteStack failed", stacks)
        ELSE IF fault = "DeleteStack:DoesNotExist" \/ i = 0
             THEN Returned(prot \o <<Call("DeleteStack", stackName, "does not exist")>>, "ok", stacks)
        ELSE Waiting(prot \o <<Call("DeleteStack", stackName, "")>>,
                     [stacks EXCEPT ![i].StackStatus = "DELETE_IN_PROGRESS"], stackName, "delete")

\* a retrieval that gives an empty template when GetTemplate fails
getStackTemplateBodyOrEmpty(stack, fault) ==
    IF fault = "GetTemplate" \/ StackIndex(stacks, stack.StackName) = 0
    THEN [err |-> "", body |-> GarbageTemplate,
          calls |-> <<Call("GetTemplate", stack.StackName, "failed")>>]
    ELSE [err |-> "", body |-> stacks[StackIndex(stacks, stack.StackName)].TemplateBody,
          calls |-> <<Call("GetTemplate", stack.StackName, "")>>]
\* a retrieval that addresses the stack by the name computed from the cluster id
getStackTemplateBodyByClusterID(stack, fault) ==
    IF fault = "GetTemplate" \/ StackIndex(stacks, normalizeStackName(clusterID)) = 0
    THEN [err |-> "GetTemplate failed", body |-> GarbageTemplate,
          calls |-> <<Call("GetTemplate", normalizeStackName(clusterID), "failed")>>]
    ELSE [err |-> "", body |-> stacks[StackIndex(stacks, normalizeStackName(clusterID))].TemplateBody,
          calls |-> <<Call("GetTemplate", normalizeStackName(clusterID), "")>>]
\* getStackTemplateBody
getStackTemplateBody(stack, fault) ==
    IF fault = "GetTemplate" \/ StackIndex(stacks, stack.StackName) = 0
    THEN [err |-> "GetTemplate failed", body |-> GarbageTemplate,
          calls |-> <<Call("GetTemplate", stack.StackName, "failed")>>]
    ELSE [err |-> "", body |-> stacks[StackIndex(stacks, stack.StackName)].TemplateBody,
          calls |-> <<Call("GetTemplate", stack.StackName, "")>>]

Prepend(c, out) == [out EXCEPT !.calls = c \o out.calls]

\* Ensure, up to the return or to the wait of the create, update or delete
Ensure(cfgs, fault, order1, order2) ==
    LET found == getEgressStack(fault)
        stack == found.stack
        gen == generateStackSpec(cfgs, fault, order1)
        spec == [gen.spec EXCEPT !.name = stack.StackName]
        body == getStackTemplateBody(stack, fault)
        storedCIDRs == getCIDRsFromTemplate(body.body)
        newCIDRs == GenerateRoutes(cfgs, order2)
    IN  IF found.err # "" THEN Returned(found.calls, found.err, stacks)
        ELSE IF CacheLen(cfgs) = 0 /\ stack.StackName = "" THEN Returned(found.calls, "ok", stacks)
        ELSE IF gen.err # ""
             THEN Returned(found.calls \o gen.calls, "failed to generate stack spec: " \o gen.err, stacks)
        ELSE IF stack.StackName = ""
             THEN Prepend(found.calls \o gen.calls, createCFStack(gen.spec, fault))
        ELSE IF CacheLen(cfgs) = 0
             THEN Prepend(found.calls \o gen.calls, deleteCFStack(spec.name, fault))
        ELSE IF body.err # ""
             THEN Returned(found.calls \o gen.calls \o body.calls, body.err, stacks)
        ELSE IF stringSetEqual(storedCIDRs, newCIDRs)
             THEN Returned(found.calls \o gen.calls \o body.calls, "ok", stacks)
        ELSE Prepend(found.calls \o gen.calls \o body.calls, updateCFStack(spec, fault))

\* the outcome of waitForStack for a polled status: "" is another round
StatusOutcome(status) ==
    IF status \in SuccessStatuses THEN "ok"
    ELSE IF status \in FailureStatuses THEN "wait for stack failed with " \o status
    ELSE ""

\* lines 498-500 and 509-511: deleteCFStack takes "does not exist" for success
WaitResult(kind, err) ==
    IF kind = "delete" /\ err = "does not exist" THEN "ok" ELSE Wrap(kind, err)


(***************************************************************************)
(* Actions                                                                 *)
(***************************************************************************)
InitProvider ==
    /\ dry \in BOOLEAN
    /\ stackTerminationProtection \in BOOLEAN
    /\ additionalStackTags = ClobberingTags
    /\ vpcID = ""
    /\ pNatCidrBlocks = natCidrBlocks
    /\ NoPipeline
    /\ ec2 \in Topologies
    /\ stacks \in {<<ForeignStack>>, <<ForeignStack, LegacyStack>>, <<ForeignStack, ManagedStack>>}
    /\ pc = "idle"
    /\ configs = [r \in EnsureResources |-> {}]
    /\ calls = <<>>
    /\ result = ""
    /\ waitName = ""
    /\ waitKind = ""
    /\ elapsed = 0

\* the controller calls Ensure with its cache; the call runs to its return or
\* to the first poll of the wait
EnsureBegin ==
    /\ pc = "idle"
    /\ ensureCalls < MaxEnsureCalls
    /\ ensureCalls' = ensureCalls + 1
    /\ \E cfgs \in EnsureConfigs : \E order1 \in MapOrders(cfgs), order2 \in MapOrders(cfgs) :
       \E fault \in FaultsOn(Ensure(cfgs, "none", order1, order2).calls) :
          LET out == Ensure(cfgs, fault, order1, order2)
          IN  /\ configs' = cfgs
              /\ faultsInjected' = IF FaultHit(fault, out.calls) THEN faultsInjected + 1
                                   ELSE faultsInjected
              /\ calls' = out.calls
              /\ result' = out.result
              /\ stacks' = out.stacks
              /\ pc' = out.pc
              /\ waitName' = out.waitName
              /\ waitKind' = out.waitKind
    /\ elapsed' = 0
    /\ UNCHANGED <<templateVars, runVars, routeVars, providerVars, pipelineVars, ec2>>

\* waitForStack, lines 688-712: one poll of the stack status
WaitPoll ==
    /\ pc = "wait"
    /\ \E fault \in (IF faultsInjected < MaxFaults THEN {"none", "DescribeStacks"} ELSE {"none"}) :
          LET i == StackIndex(stacks, waitName)
              err == IF fault = "DescribeStacks" THEN "DescribeStacks failed"
                     ELSE IF i = 0 THEN "does not exist"
                     ELSE StatusOutcome(stacks[i].StackStatus)
          IN  /\ calls' = Append(calls, Call("DescribeStacks", waitName,
                                              IF err \in {"", "ok"} \/ (fault = "none" /\ i # 0) THEN "" ELSE err))
              /\ IF err = ""
                 THEN pc' = "sleep" /\ result' = ""
                 ELSE pc' = "idle" /\ result' = WaitResult(waitKind, err)
              /\ faultsInjected' = IF fault = "none" THEN faultsInjected ELSE faultsInjected + 1
    /\ UNCHANGED <<templateVars, runVars, routeVars, providerVars, pipelineVars, cloudVars, configs, waitName, waitKind, elapsed,
                   ensureCalls>>

\* lines 714-718: the poll interval passes before the deadline
WaitSleep ==
    /\ pc = "sleep"
    /\ elapsed < MaxPolls
    /\ elapsed' = elapsed + 1
    /\ pc' = "wait"
    /\ UNCHANGED <<templateVars, runVars, routeVars, providerVars, pipelineVars, cloudVars, configs, calls, result, waitName, waitKind,
                   boundVars>>

\* lines 714-716: the deadline of the wait passes
WaitTimeout ==
    /\ pc = "sleep"
    /\ elapsed >= MaxPolls
    /\ pc' = "idle"
    /\ result' = WaitResult(waitKind, "wait for stack timeout exceeded")
    /\ UNCHANGED <<templateVars, runVars, routeVars, providerVars, pipelineVars, cloudVars, configs, calls, waitName, waitKind, elapsed,
                   boundVars>>

\* CloudFormation finishes or fails the operation a stack is in
ProgressOutcomes(stack) ==
    CASE stack.StackStatus = "CREATE_IN_PROGRESS" -> {"CREATE_COMPLETE", "CREATE_FAILED"}
      [] stack.StackStatus = "CREATE_FAILED" -> {"DELETE_COMPLETE"}
      [] stack.StackStatus = "UPDATE_IN_PROGRESS" -> {"UPDATE_COMPLETE", "UPDATE_ROLLBACK_COMPLETE"}
      [] stack.StackStatus = "DELETE_IN_PROGRESS" -> {"DELETE_COMPLETE", "DELETE_FAILED"}
      [] OTHER -> {}

StackProgress ==
    /\ \E i \in 1..Len(stacks) : \E status \in ProgressOutcomes(stacks[i]) :
          stacks' = IF status = "DELETE_COMPLETE" THEN RemoveAt(stacks, i)
                    ELSE IF status = "UPDATE_ROLLBACK_COMPLETE"
                         THEN [stacks EXCEPT ![i].StackStatus = status,
                                             ![i].TemplateBody = stacks[i].RollbackBody,
                                             ![i].RollbackBody = GarbageTemplate]
                    ELSE [stacks EXCEPT ![i].StackStatus = status,
                                        ![i].RollbackBody = GarbageTemplate]
    /\ UNCHANGED <<templateVars, runVars, routeVars, providerVars, pipelineVars, ec2, ensureVars, boundVars>>

Init ==
    /\ InitProvider
    /\ ensureCalls = 0
    /\ faultsInjected = 0
    /\ grConfigs = [r \in Resources |-> {}]
    /\ grOrder = <<>>
    /\ grResult = {}
    /\ grDone = TRUE
    /\ NoTemplateCall
    /\ NoController

Next == EnsureBegin \/ WaitPoll \/ WaitSleep \/ WaitTimeout \/ StackProgress

Spec == Init /\ [][Next]_vars

(***************************************************************************)
(* The specification of GenerateRoutes on its own                          *)
(***************************************************************************)

InitRoutes ==
    /\ grConfigs \in {c \in ConfigsOver(Resources, CIDRs) : EntryCount(c) <= MaxEntries}
    /\ grOrder = <<>>
    /\ grResult = {}
    /\ grDone = FALSE
    /\ NoTemplateCall
    /\ NoController
    /\ dry = FALSE
    /\ stackTerminationProtection = FALSE
    /\ additionalStackTags = <<>>
    /\ vpcID = ""
    /\ pNatCidrBlocks = natCidrBlocks
    /\ NoPipeline
    /\ ec2 = TopoStandard
    /\ stacks = <<>>
    /\ pc = "idle"
    /\ configs = <<>>
    /\ calls = <<>>
    /\ result = ""
    /\ waitName = ""
    /\ waitKind = ""
    /\ elapsed = 0
    /\ ensureCalls = 0
    /\ faultsInjected = 0

CallGenerateRoutes ==
    /\ ~grDone
    /\ \E ro \in Perms(Resources), co \in Perms(CIDRs) :
          /\ grOrder' = <<ro, co>>
          /\ grResult' = GenerateRoutesIn(grConfigs, ro, co)
    /\ grDone' = TRUE
    /\ UNCHANGED <<templateVars, runVars, grConfigs, providerVars, pipelineVars, cloudVars, ensureVars, boundVars>>

NextRoutes == CallGenerateRoutes

SpecRoutes == InitRoutes /\ [][NextRoutes]_vars

(***************************************************************************)
(* The specification of one Ensure call, without API failures, of a        *)
(* provider with any map of extra tags                                     *)
(***************************************************************************)
TagKeys == {clusterIDTagPrefix \o clusterID, kubernetesApplicationTagKey, "foo"}
TagValues == {"bar", resourceLifecycleOwned}
TagMaps == UNION {[ks -> TagValues] : ks \in SUBSET TagKeys}

InitTags ==
    /\ dry = FALSE
    /\ stackTerminationProtection \in BOOLEAN
    /\ additionalStackTags \in TagMaps
    /\ vpcID = ""
    /\ pNatCidrBlocks = natCidrBlocks
    /\ NoPipeline
    /\ ec2 = TopoStandard
    /\ stacks \in {<<ForeignStack>>, <<ForeignStack, LegacyStack>>}
    /\ pc = "idle"
    /\ configs = [r \in EnsureResources |-> {}]
    /\ calls = <<>>
    /\ result = ""
    /\ waitName = ""
    /\ waitKind = ""
    /\ elapsed = 0
    /\ ensureCalls = MaxEnsureCalls - 1
    /\ faultsInjected = MaxFaults
    /\ grConfigs = [r \in Resources |-> {}]
    /\ grOrder = <<>>
    /\ grResult = {}
    /\ grDone = TRUE
    /\ NoTemplateCall
    /\ NoController

SpecTags == InitTags /\ [][Next]_vars

(***************************************************************************)
(* One call of generateTemplate, as generateStackSpec makes it: on a cache,*)
(* with the route table parameters of the topology, ranging over the cache *)
(* and over the aggregated routes in some order.                           *)
(***************************************************************************)
\* the iteration orders of one call: of the cache (for GenerateRoutes) and of
\* the aggregated routes
TemplateOrders(cfgs) ==
    UNION { {<<o, n>> : n \in Perms(GenerateRoutes(cfgs, o))} : o \in MapOrders(cfgs) }

\* the serialized template of the cache cfgs under the orders o
TemplateOf(cfgs, o) ==
    LET params == RouteTableParams(SortRouteTables(ec2.routeTables), 1)
    IN  generateTemplateIn(o[2], params.order, params.zoneIndexes)

InitTemplate ==
    /\ tplConfigs \in {c \in ConfigsOver(Resources, CIDRs) : EntryCount(c) <= MaxEntries}
    /\ tplOrder = <<>>
    /\ tplResult = <<>>
    /\ tplDone = FALSE
    /\ vpcFound = <<>>
    /\ tableParams = <<>>
    /\ cmObject = <<>>
    /\ ec2 \in {TopoStandard, TopoNoZoneTag}
    /\ dry = FALSE
    /\ stackTerminationProtection = FALSE
    /\ additionalStackTags = <<>>
    /\ vpcID = ""
    /\ pNatCidrBlocks = natCidrBlocks
    /\ NoPipeline
    /\ stacks = <<>>
    /\ pc = "idle"
    /\ configs = <<>>
    /\ calls = <<>>
    /\ result = ""
    /\ waitName = ""
    /\ waitKind = ""
    /\ elapsed = 0
    /\ ensureCalls = 0
    /\ faultsInjected = 0
    /\ grConfigs = [r \in Resources |-> {}]
    /\ grOrder = <<>>
    /\ grResult = {}
    /\ grDone = TRUE
    /\ NoController

CallGenerateTemplate ==
    /\ ~tplDone
    /\ \E o \in TemplateOrders(tplConfigs) :
          /\ tplOrder' = o
          /\ tplResult' = TemplateOf(tplConfigs, o)
    /\ tplDone' = TRUE
    /\ UNCHANGED <<tplConfigs, vpcFound, cmObject, tableParams, runVars, routeVars, providerVars, pipelineVars, cloudVars,
                   ensureVars, boundVars>>

NextTemplate == CallGenerateTemplate

SpecTemplate == InitTemplate /\ [][NextTemplate]_vars

(***************************************************************************)
(* The controller: EgressController.Run with its configuration source and  *)
(* its provider.  The provider is the interface: a call of Ensure is in    *)
(* progress until it returns nil or an error.  Each watcher goroutine of   *)
(* the source sends on an unbuffered channel, so it holds at most one      *)
(* event, which it is blocked sending until Run receives it.               *)
(***************************************************************************)
\* number of Resources the source knows, each watched by its own goroutine
NumRunResources == 2
\* number of CIDR blocks of CIDRPool the IP sets of the source draw from
NumRunCIDRs == 2

RunResources == 1..NumRunResources
\* the IP sets of a configuration: none, or the first n blocks
RunIPSets == { {CIDRPool[i] : i \in 1..n} : n \in 0..NumRunCIDRs }
\* provider.EgressConfig
EgressConfig(r, ips) == [Resource |-> r, IPAddresses |-> ips]
\* what ListConfigs can return: one configuration for each of some Resources
Listings == UNION { [d -> RunIPSets] : d \in SUBSET RunResources }

\* a merge that stores the configurations with an empty set too
MergeListingAll(cache, l) ==
    [r \in DOMAIN cache \cup DOMAIN l |-> IF r \in DOMAIN l THEN l[r] ELSE cache[r]]
\* lines 775-779: the loop over the listed configurations
MergeListing(cache, l) ==
    [r \in DOMAIN cache \cup {x \in DOMAIN l : l[x] # {}} |->
        IF r \in DOMAIN l /\ l[r] # {} THEN l[r] ELSE cache[r]]

\* an update that stores the empty set of an event as an entry
ApplyEventKeepEmpty(cache, config) ==
    [r \in DOMAIN cache \cup {config.Resource} |->
        IF r = config.Resource THEN config.IPAddresses ELSE cache[r]]
\* lines 789-794: delete on an empty set, store the set otherwise
ApplyEvent(cache, config) ==
    IF config.IPAddresses = {}
    THEN [r \in DOMAIN cache \ {config.Resource} |-> cache[r]]
    ELSE [r \in DOMAIN cache \cup {config.Resource} |->
             IF r = config.Resource THEN config.IPAddresses ELSE cache[r]]

\* Run handles events and ticks wherever it is
AnyPosition(position) == position \in {"select", "bootEnsure", "tickEnsure", "eventEnsure"}
\* line 785: Run is at the select of the second loop
AtSelect(position) == position = "select"

\* Run ends when Ensure has returned an error
EndOnError(err) == IF err = "error" THEN "returned" ELSE "select"
\* lines 803-811 and the loops of Run: ensureEgressRules logs the error of
\* Ensure, and Run goes (back) to the select
AfterEnsure(err) == "select"

\* Ensure is handed a copy of the cache taken before the event was applied
StaleCache(before, after) == before
\* line 795: Ensure is handed c.configsCache after the event was applied
EnsureArgument(before, after) == after

\* the timer of the select never fires
TimerNever(position) == FALSE
\* line 786: time.After(c.interval) is ready when Run waits in the select
TimerFires(position) == AtSelect(position)

\* lines 803-804: ensureEgressRules calls prov.Ensure with the cache
ensureEgressRules(from, arg) ==
    /\ runPc' = from
    /\ inFlight' = inFlight + 1
    /\ ensureArg' = arg

\* the state after NewEgressController, with a source that lists one of listings
InitRun(listings) ==
    /\ runPc = "list"
    /\ configsCache = <<>>
    /\ canceled = FALSE
    /\ pending = [w \in RunResources |-> <<>>]
    /\ listed \in listings
    /\ inFlight = 0
    /\ ensureArg = <<>>
    /\ ensureErr = ""
    /\ bootCache = <<>>
    /\ latest = [r \in RunResources |-> <<>>]
    /\ NoTemplateCall
    /\ grConfigs = [r \in Resources |-> {}]
    /\ grOrder = <<>>
    /\ grResult = {}
    /\ grDone = TRUE
    /\ dry = FALSE
    /\ stackTerminationProtection = FALSE
    /\ additionalStackTags = <<>>
    /\ vpcID = ""
    /\ pNatCidrBlocks = natCidrBlocks
    /\ NoPipeline
    /\ ec2 = TopoStandard
    /\ stacks = <<>>
    /\ pc = "idle"
    /\ configs = <<>>
    /\ calls = <<>>
    /\ result = ""
    /\ waitName = ""
    /\ waitKind = ""
    /\ elapsed = 0
    /\ ensureCalls = 0
    /\ faultsInjected = 0

otherVars == <<routeVars, providerVars, pipelineVars, cloudVars, ensureVars, boundVars, templateVars>>

\* lines 768-771: ListConfigs fails, Run sleeps
ListFail ==
    /\ runPc = "list"
    /\ runPc' = "backoff"
    /\ UNCHANGED <<configsCache, canceled, pending, listed, inFlight, ensureArg, ensureErr,
                   bootCache, latest, otherVars>>

\* lines 771-772: the sleep ends, Run lists again
BackoffDone ==
    /\ runPc = "backoff"
    /\ runPc' = "list"
    /\ UNCHANGED <<configsCache, canceled, pending, listed, inFlight, ensureArg, ensureErr,
                   bootCache, latest, otherVars>>

\* lines 768, 775-781: ListConfigs succeeds, the listing is merged into the
\* cache and Ensure is called
ListOk ==
    /\ runPc = "list"
    /\ configsCache' = MergeListing(configsCache, listed)
    /\ bootCache' = configsCache'
    /\ ensureEgressRules("bootEnsure", configsCache')
    /\ UNCHANGED <<canceled, pending, listed, ensureErr, latest, otherVars>>

\* lines 804-810: Ensure returns, with an error or without
EnsureReturn ==
    /\ runPc \in {"bootEnsure", "tickEnsure", "eventEnsure"}
    /\ \E err \in {"ok", "error"} :
          /\ ensureErr' = err
          /\ runPc' = AfterEnsure(err)
    /\ inFlight' = inFlight - 1
    /\ UNCHANGED <<configsCache, canceled, pending, listed, ensureArg, bootCache, latest,
                   otherVars>>

\* lines 786-787: the timer fires
Tick ==
    /\ TimerFires(runPc)
    /\ ensureEgressRules("tickEnsure", configsCache)
    /\ UNCHANGED <<configsCache, canceled, pending, listed, ensureErr, bootCache, latest,
                   otherVars>>

\* lines 788-795: Run receives the event a watcher is sending
Receive ==
    /\ AtSelect(runPc)
    /\ \E w \in RunResources :
          /\ pending[w] # <<>>
          /\ pending' = [pending EXCEPT ![w] = <<>>]
          /\ configsCache' = ApplyEvent(configsCache, pending[w][1])
          /\ latest' = [latest EXCEPT ![pending[w][1].Resource] = <<pending[w][1].IPAddresses>>]
          /\ ensureEgressRules("eventEnsure", EnsureArgument(configsCache, configsCache'))
    /\ UNCHANGED <<canceled, listed, ensureErr, bootCache, otherVars>>

\* lines 796-798: Run takes the case of ctx.Done
Return ==
    /\ runPc = "select"
    /\ canceled
    /\ runPc' = "returned"
    /\ UNCHANGED <<configsCache, canceled, pending, listed, inFlight, ensureArg, ensureErr,
                   bootCache, latest, otherVars>>

\* the caller of Run cancels the context
Cancel ==
    /\ ~canceled
    /\ canceled' = TRUE
    /\ UNCHANGED <<runPc, configsCache, pending, listed, inFlight, ensureArg, ensureErr,
                   bootCache, latest, otherVars>>

\* a handler of a watcher sends the configuration of its Resource (add,
\* update) or the empty configuration (del), and blocks
Offer ==
    /\ runPc # "returned"
    /\ \E w \in RunResources, ips \in RunIPSets :
          /\ pending[w] = <<>>
          /\ pending' = [pending EXCEPT ![w] = <<EgressConfig(w, ips)>>]
    /\ UNCHANGED <<runPc, configsCache, canceled, listed, inFlight, ensureArg, ensureErr,
                   bootCache, latest, otherVars>>

NextRun ==
    \/ ListFail \/ BackoffDone \/ ListOk \/ EnsureReturn \/ Tick \/ Receive \/ Return
    \/ Cancel \/ Offer

SpecRun == InitRun(Listings) /\ [][NextRun]_vars

\* Run keeps running: a call of ListConfigs or Ensure returns, the sleep and
\* the timer end, and the select, which picks at random among the ready
\* cases, does not pass over ctx.Done for ever
RunFairness ==
    /\ WF_vars(ListOk \/ ListFail)
    /\ WF_vars(BackoffDone)
    /\ WF_vars(EnsureReturn)
    /\ WF_vars(Tick)
    /\ SF_vars(Return)

SpecRunFair == InitRun(Listings) /\ [][NextRun]_vars /\ RunFairness

(***************************************************************************)
(* waitForStack under its context.  createCFStack, updateCFStack and       *)
(* deleteCFStack have issued their call and wait for the stack: the wait   *)
(* polls the status, and between two polls it waits for the interval or for*)
(* its context.  Time passes in the intervals; the caller of Ensure can    *)
(* cancel at any moment, and CloudFormation moves the stack as it likes.   *)
(***************************************************************************)
\* number of poll intervals that fit into maxStackWaitTimeout
MaxWaitIntervals == 2

\* the values of StackStatus a poll can show
InProgressStatuses ==
    {"CREATE_IN_PROGRESS", "UPDATE_IN_PROGRESS", "DELETE_IN_PROGRESS", "ROLLBACK_IN_PROGRESS",
     "UPDATE_ROLLBACK_IN_PROGRESS", "UPDATE_COMPLETE_CLEANUP_IN_PROGRESS"}
AllStatuses == SuccessStatuses \cup FailureStatuses \cup InProgressStatuses

\* a wait without a deadline
NoDeadline(intervals) == FALSE
\* context.WithTimeout(..., maxStackWaitTimeout), lines 504, 553 and 589
DeadlinePassed(intervals) == intervals >= MaxWaitIntervals

\* the context of every wait derives from the context of Ensure
AlwaysDerived(kind) == TRUE
\* lines 504 and 553 derive the context of the wait from the context of
\* Ensure, line 589 derives it from context.Background()
DerivedFromCaller(kind) == kind # "create"

\* ctx.Done of the context waitForStack is given
WaitCtxDone(kind) ==
    \/ DeadlinePassed(elapsed)
    \/ DerivedFromCaller(kind) /\ canceled

\* a poll that takes ROLLBACK_COMPLETE for a status in progress
StatusOutcomeLenient(status) ==
    IF status \in SuccessStatuses THEN "ok"
    ELSE IF status \in FailureStatuses \ {"ROLLBACK_COMPLETE"}
         THEN "wait for stack failed with " \o status
    ELSE ""
\* lines 692-711: the switch over the polled status; "" is no case
PolledOutcome(status) == StatusOutcome(status)

\* lines 688-691: what getStackByName can return.  The call is handed the
\* context of the wait: when that is done the call can fail for it.
PollOutcomes(kind) ==
    LET i == StackIndex(stacks, waitName)
    IN  {[err |-> "DescribeStacks failed", status |-> ""]}
        \cup (IF WaitCtxDone(kind)
              THEN {[err |-> IF DeadlinePassed(elapsed) THEN "context deadline exceeded"
                             ELSE "context canceled", status |-> ""]}
              ELSE {})
        \cup (IF i = 0 THEN {[err |-> "does not exist", status |-> ""]}
              ELSE {[err |-> "", status |-> stacks[i].StackStatus]})

waitOtherVars == <<templateVars, runPc, configsCache, pending, listed, inFlight, ensureArg,
                   ensureErr, bootCache, latest, routeVars, providerVars, pipelineVars, ec2, configs,
                   waitName, waitKind, boundVars>>

\* lines 688-712: one poll
Poll ==
    /\ pc = "wait"
    /\ \E out \in PollOutcomes(waitKind) :
          LET res == IF out.err # "" THEN out.err ELSE PolledOutcome(out.status)
          IN  /\ calls' = Append(calls, Call("DescribeStacks", waitName, out.err))
              /\ IF res = ""
                 THEN pc' = "sleep" /\ result' = ""
                 ELSE pc' = "idle" /\ result' = WaitResult(waitKind, res)
    /\ UNCHANGED <<stacks, elapsed, canceled, waitOtherVars>>

\* lines 714-718: time.After(waitTime) fires before the context is done
Interval ==
    /\ pc = "sleep"
    /\ ~WaitCtxDone(waitKind)
    /\ elapsed' = IF elapsed < MaxWaitIntervals THEN elapsed + 1 ELSE elapsed
    /\ pc' = "wait"
    /\ UNCHANGED <<stacks, calls, result, canceled, waitOtherVars>>

\* lines 714-716: the context of the wait is done
CtxDone ==
    /\ pc = "sleep"
    /\ WaitCtxDone(waitKind)
    /\ pc' = "idle"
    /\ result' = WaitResult(waitKind, "wait for stack timeout exceeded")
    /\ UNCHANGED <<stacks, calls, elapsed, canceled, waitOtherVars>>

\* the caller of Ensure cancels its context
CancelEnsure ==
    /\ pc # "idle"
    /\ ~canceled
    /\ canceled' = TRUE
    /\ UNCHANGED <<stacks, pc, calls, result, elapsed, waitOtherVars>>

\* CloudFormation moves the stack to another status, or forgets a deleted one
CloudMoves ==
    /\ pc # "idle"
    /\ stacks # <<>>
    /\ \/ \E status \in AllStatuses :
             /\ status # stacks[1].StackStatus
             /\ stacks' = <<[stacks[1] EXCEPT !.StackStatus = status]>>
       \/ stacks[1].StackStatus = "DELETE_COMPLETE" /\ stacks' = <<>>
    /\ UNCHANGED <<pc, calls, result, elapsed, canceled, waitOtherVars>>

\* the state in which createCFStack (line 591), updateCFStack (555) or
\* deleteCFStack (507) calls waitForStack
InitWait ==
    /\ NoTemplateCall
    /\ NoController
    /\ grConfigs = [r \in Resources |-> {}]
    /\ grOrder = <<>>
    /\ grResult = {}
    /\ grDone = TRUE
    /\ dry = FALSE
    /\ stackTerminationProtection = FALSE
    /\ additionalStackTags = <<>>
    /\ vpcID = ""
    /\ pNatCidrBlocks = natCidrBlocks
    /\ NoPipeline
    /\ ec2 = TopoStandard
    /\ waitKind \in {"create", "update", "delete"}
    /\ waitName = ManagedStack.StackName
    /\ stacks = <<[ManagedStack EXCEPT !.StackStatus =
                      CASE waitKind = "create" -> "CREATE_IN_PROGRESS"
                        [] waitKind = "update" -> "UPDATE_IN_PROGRESS"
                        [] OTHER -> "DELETE_IN_PROGRESS"]>>
    /\ pc = "wait"
    /\ configs = [r \in EnsureResources |-> {}]
    /\ calls = <<>>
    /\ result = ""
    /\ elapsed = 0
    /\ ensureCalls = 1
    /\ faultsInjected = 0

NextWait == Poll \/ Interval \/ CtxDone \/ CancelEnsure \/ CloudMoves

SpecWait == InitWait /\ [][NextWait]_vars

\* waitForStack keeps running: a poll returns, and the select takes a case
\* that is ready
SpecWaitFair ==
    InitWait /\ [][NextWait]_vars /\ WF_vars(Poll) /\ WF_vars(Interval) /\ WF_vars(CtxDone)

(***************************************************************************)
(* The process: the loop of Run calling Ensure of an AWSProvider that was  *)
(* constructed with the NAT CIDR blocks of the command line.  A panic in   *)
(* Ensure is not recovered by ensureEgressRules, by Run or by main: it ends*)
(* the process.                                                            *)
(***************************************************************************)
\* the largest number of NAT CIDR blocks given on the command line
MaxNatCidrBlocks == 3

NatCidrBlockPool == natCidrBlocks \o <<"172.31.64.32/28", "172.31.64.48/28">>
NatCidrBlockLists == {SubSeq(NatCidrBlockPool, 1, n) : n \in 0..MaxNatCidrBlocks}

\* lines 386 and 403: the loop runs i from 1 to len(p.availabilityZones) and
\* reads p.natCidrBlocks[i-1]; the index is out of range when there are fewer
\* blocks than zones
ZoneLoopPanics(zones, blocks) == \E i \in 1..Len(zones) : i - 1 >= Len(blocks)

\* lines 98-111 and 212-319: Ensure gets as far as calling generateTemplate
ReachesGenerateTemplate(cfgs, fault, order) ==
    LET found == getEgressStack(fault)
    IN  /\ found.err = ""
        /\ ~(CacheLen(cfgs) = 0 /\ found.stack.StackName = "")
        /\ generateStackSpec(cfgs, fault, order).err = ""

processOtherVars == <<templateVars, configsCache, canceled, pending, listed, inFlight, ensureArg,
                      bootCache, latest, routeVars, providerVars, pipelineVars, ec2, pc, waitName, waitKind,
                      elapsed, boundVars>>

\* aws.go lines 803-810 with part_004 lines 97-157: Ensure returns, nil or an
\* error, and the loop goes on; a wait for the stack ends well or times out
EnsureReturns ==
    /\ runPc = "select"
    /\ \E cfgs \in EnsureConfigs : \E order \in MapOrders(cfgs) :
       \E fault \in FaultsOn(Ensure(cfgs, "none", order, order).calls) :
          LET out == Ensure(cfgs, fault, order, order)
          IN  /\ ~(ReachesGenerateTemplate(cfgs, fault, order)
                   /\ ZoneLoopPanics(availabilityZones, pNatCidrBlocks))
              /\ configs' = cfgs
              /\ calls' = out.calls
              /\ stacks' = out.stacks
              /\ IF out.pc = "wait"
                 THEN result' \in {"ok", WaitResult(out.waitKind, "wait for stack timeout exceeded")}
                 ELSE result' = out.result
    /\ ensureErr' = IF result' = "ok" THEN "ok" ELSE "error"
    /\ runPc' = "select"
    /\ UNCHANGED processOtherVars

\* part_004 line 403 in a call of Ensure: the index is out of range, the
\* goroutine of Run panics and the process ends
EnsurePanics ==
    /\ runPc = "select"
    /\ \E cfgs \in EnsureConfigs : \E order \in MapOrders(cfgs) :
       \E fault \in FaultsOn(Ensure(cfgs, "none", order, order).calls) :
          /\ ReachesGenerateTemplate(cfgs, fault, order)
          /\ ZoneLoopPanics(availabilityZones, pNatCidrBlocks)
          /\ configs' = cfgs
          /\ calls' = getEgressStack(fault).calls \o generateStackSpec(cfgs, fault, order).calls
    /\ result' = ""
    /\ ensureErr' = "panic"
    /\ runPc' = "crashed"
    /\ UNCHANGED <<stacks, processOtherVars>>

\* NewAWSProvider with the flags of the command line, and Run at its select
InitProcess ==
    /\ dry \in BOOLEAN
    /\ stackTerminationProtection \in BOOLEAN
    /\ additionalStackTags = ClobberingTags
    /\ vpcID = ""
    /\ pNatCidrBlocks \in NatCidrBlockLists
    /\ NoPipeline
    /\ ec2 \in Topologies
    /\ stacks \in {<<ForeignStack>>, <<ForeignStack, ManagedStack>>}
    /\ pc = "idle"
    /\ configs = [r \in EnsureResources |-> {}]
    /\ calls = <<>>
    /\ result = ""
    /\ waitName = ""
    /\ waitKind = ""
    /\ elapsed = 0
    /\ ensureCalls = 0
    /\ faultsInjected = 0
    /\ grConfigs = [r \in Resources |-> {}]
    /\ grOrder = <<>>
    /\ grResult = {}
    /\ grDone = TRUE
    /\ NoTemplateCall
    /\ runPc = "select"
    /\ configsCache = <<>>
    /\ canceled = FALSE
    /\ pending = <<>>
    /\ listed = <<>>
    /\ inFlight = 0
    /\ ensureArg = <<>>
    /\ ensureErr = ""
    /\ bootCache = <<>>
    /\ latest = <<>>

NextProcess == EnsureReturns \/ EnsurePanics

SpecProcess == InitProcess /\ [][NextProcess]_vars

(***************************************************************************)
(* findVPC on its own, for every configured id and every list of VPCs      *)
(* DescribeVpcs can return                                                 *)
(***************************************************************************)
\* number of VPCs of the account
MaxVpcs == 4
VpcIdPool == <<"vpc-1", "vpc-2", "vpc-3", "vpc-4", "vpc-5", "vpc-6">>
\* the vpcID argument of NewAWSProvider when it is set
ConfiguredVpcID == "vpc-configured"

\* DescribeVpcsOutput.Vpcs: up to MaxVpcs VPCs, any of them flagged default
VpcLists ==
    UNION { { [i \in 1..n |-> [VpcId |-> VpcIdPool[i], IsDefault |-> f[i]]] :
                f \in [1..n -> BOOLEAN] } :
            n \in 0..(IF MaxVpcs < Len(VpcIdPool) THEN MaxVpcs ELSE Len(VpcIdPool)) }

InitVPC ==
    /\ vpcID \in {"", ConfiguredVpcID}
    /\ ec2 \in {[TopoStandard EXCEPT !.vpcs = v] : v \in VpcLists}
    /\ vpcFound = <<>>
    /\ tableParams = <<>>
    /\ cmObject = <<>>
    /\ tplConfigs = <<>>
    /\ tplOrder = <<>>
    /\ tplResult = <<>>
    /\ tplDone = TRUE
    /\ dry = FALSE
    /\ stackTerminationProtection = FALSE
    /\ additionalStackTags = <<>>
    /\ pNatCidrBlocks = natCidrBlocks
    /\ NoPipeline
    /\ stacks = <<>>
    /\ pc = "idle"
    /\ configs = <<>>
    /\ calls = <<>>
    /\ result = ""
    /\ waitName = ""
    /\ waitKind = ""
    /\ elapsed = 0
    /\ ensureCalls = 0
    /\ faultsInjected = 0
    /\ grConfigs = [r \in Resources |-> {}]
    /\ grOrder = <<>>
    /\ grResult = {}
    /\ grDone = TRUE
    /\ NoController

\* one call of findVPC, with or without a failure of DescribeVpcs
CallFindVPC ==
    /\ vpcFound = <<>>
    /\ \E fault \in {"none", "DescribeVpcs"} : vpcFound' = <<findVPC(fault)>>
    /\ UNCHANGED <<tplConfigs, tplOrder, tplResult, tplDone, cmObject, tableParams, runVars, routeVars,
                   providerVars, pipelineVars, cloudVars, ensureVars, boundVars>>

NextVPC == CallFindVPC

SpecVPC == InitVPC /\ [][NextVPC]_vars

(***************************************************************************)
(* The ConfigMap watcher: the handlers of its informer turn a ConfigMap    *)
(* into an EgressConfig and send it to the controller, which is modelled   *)
(* from the select of Run on.  A data value is a string; net.ParseCIDR is  *)
(* computed on its characters.                                             *)
(***************************************************************************)
\* number of values of DataValuePool the data of a ConfigMap draws from
NumDataValues == 4
\* number of data entries of a ConfigMap
MaxDataEntries == 2

\* "10.0.0.0/16", "10.0.0.0", "10.0.77.1/17", "10.0.0.256/8", "10.0.0.0/33",
\* "", "10.0.0/8", "10.0.99.9/16"
DataValuePool ==
    << <<"1", "0", ".", "0", ".", "0", ".", "0", "/", "1", "6">>,
       <<"1", "0", ".", "0", ".", "0", ".", "0">>,
       <<"1", "0", ".", "0", ".", "7", "7", ".", "1", "/", "1", "7">>,
       <<"1", "0", ".", "0", ".", "0", ".", "2", "5", "6", "/", "8">>,
       <<"1", "0", ".", "0", ".", "0", ".", "0", "/", "3", "3">>,
       <<>>,
       <<"1", "0", ".", "0", ".", "0", "/", "8">>,
       <<"1", "0", ".", "0", ".", "9", "9", ".", "9", "/", "1", "6">> >>
DataValues ==
    {DataValuePool[i] : i \in 1..(IF NumDataValues < Len(DataValuePool)
                                  THEN NumDataValues ELSE Len(DataValuePool))}
\* cm.Data in the order the loop ranges over it (the keys are not looked at)
DataMaps == UNION {[1..n -> DataValues] : n \in 0..MaxDataEntries}

IsDigit(ch) == \E d \in 1..10 : DigitChars[d] = ch
DigitValue(ch) == (CHOOSE d \in 1..10 : DigitChars[d] = ch) - 1

\* strings.IndexByte: the first position of ch in s, 0 when there is none
RECURSIVE IndexByte(_, _)
IndexByte(s, ch) ==
    IF s = <<>> THEN 0
    ELSE IF Head(s) = ch THEN 1
    ELSE LET k == IndexByte(Tail(s), ch) IN IF k = 0 THEN 0 ELSE k + 1

\* dtoi: the number the leading digits of s spell, and how many they are
RECURSIVE dtoiFrom(_, _, _)
dtoiFrom(s, n, i) ==
    IF s = <<>> \/ ~IsDigit(Head(s)) THEN [n |-> n, i |-> i, ok |-> i > 0]
    ELSE dtoiFrom(Tail(s), n * 10 + DigitValue(Head(s)), i + 1)
dtoi(s) == dtoiFrom(s, 0, 0)

\* the fields of s between its dots
RECURSIVE Fields(_)
Fields(s) ==
    LET k == IndexByte(s, ".")
    IN  IF k = 0 THEN <<s>>
        ELSE <<SubSeq(s, 1, k - 1)>> \o Fields(SubSeq(s, k + 1, Len(s)))

\* one field of a dotted IPv4 address: one to three digits, no leading zero,
\* at most 255
ValidOctet(f) ==
    /\ Len(f) \in 1..3
    /\ \A k \in 1..Len(f) : IsDigit(f[k])
    /\ Len(f) > 1 => f[1] # "0"
    /\ dtoi(f).n <= 255

\* the parse of the address of a CIDR string: four valid fields
parseIPv4(s) ==
    LET f == Fields(s)
    IN  IF Len(f) = 4 /\ \A k \in 1..4 : ValidOctet(f[k])
        THEN [ok |-> TRUE, ip |-> [k \in 1..4 |-> dtoi(f[k]).n]]
        ELSE [ok |-> FALSE, ip |-> <<>>]

IntToIP(v) == << v \div 16777216, (v \div 65536) % 256, (v \div 256) % 256, v % 256 >>

\* net.ParseCIDR for IPv4: the address before the first "/", the number of
\* mask bits after it, and the address masked
ParseCIDR(s) ==
    LET i == IndexByte(s, "/")
        addr == parseIPv4(SubSeq(s, 1, i - 1))
        mask == SubSeq(s, i + 1, Len(s))
        m == dtoi(mask)
    IN  IF i = 0 \/ ~addr.ok \/ ~m.ok \/ m.i # Len(mask) \/ m.n > 32
        THEN [err |-> TRUE, ipnet |-> IPNet(0, 0, 0, 0, 0)]
        ELSE [err |-> FALSE,
              ipnet |-> [ip |-> IntToIP((IPToInt(addr.ip) \div 2 ^ (32 - m.n)) * 2 ^ (32 - m.n)),
                         ones |-> m.n]]

\* v1.ConfigMap: its name (the Resource) and its data
ConfigMap(name, data) == [Name |-> name, Data |-> data]

\* a conversion that gives up at the first value that does not parse
RECURSIVE ipAddressesUntilError(_)
ipAddressesUntilError(data) ==
    IF data = <<>> THEN {}
    ELSE IF ParseCIDR(Head(data)).err THEN {}
    ELSE {ParseCIDR(Head(data)).ipnet} \cup ipAddressesUntilError(Tail(data))
\* lines 178-186: the loop over cm.Data; the map ipAddresses is keyed by the
\* String of the networks, which is one-to-one on them
RECURSIVE ipAddresses(_)
ipAddresses(data) ==
    IF data = <<>> THEN {}
    ELSE IF ParseCIDR(Head(data)).err THEN ipAddresses(Tail(data))
    ELSE {ParseCIDR(Head(data)).ipnet} \cup ipAddresses(Tail(data))

\* lines 188-195
configMapToEgressConfig(cm) == EgressConfig(cm.Name, ipAddresses(cm.Data))

\* the controller has listed the configurations and waits in its select
InitWatcher ==
    /\ runPc = "select"
    /\ listed \in [RunResources -> RunIPSets]
    /\ configsCache = MergeListing(<<>>, listed)
    /\ bootCache = configsCache
    /\ canceled = FALSE
    /\ pending = [w \in RunResources |-> <<>>]
    /\ inFlight = 0
    /\ ensureArg = configsCache
    /\ ensureErr = "ok"
    /\ latest = [r \in RunResources |-> <<>>]
    /\ NoTemplateCall
    /\ grConfigs = [r \in Resources |-> {}]
    /\ grOrder = <<>>
    /\ grResult = {}
    /\ grDone = TRUE
    /\ dry = FALSE
    /\ stackTerminationProtection = FALSE
    /\ additionalStackTags = <<>>
    /\ vpcID = ""
    /\ pNatCidrBlocks = natCidrBlocks
    /\ NoPipeline
    /\ ec2 = TopoStandard
    /\ stacks = <<>>
    /\ pc = "idle"
    /\ configs = <<>>
    /\ calls = <<>>
    /\ result = ""
    /\ waitName = ""
    /\ waitKind = ""
    /\ elapsed = 0
    /\ ensureCalls = 0
    /\ faultsInjected = 0

\* the informer calls its handlers one after the other: a handler is called
\* when the send of the one before it has been received
HandlerCalled(kind, cm, config) ==
    /\ \A w \in RunResources : pending[w] = <<>>
    /\ cmObject' = <<[kind |-> kind, cm |-> cm]>>
    /\ pending' = [pending EXCEPT ![cm.Name] = <<config>>]
    /\ UNCHANGED <<tplConfigs, tplOrder, tplResult, tplDone, vpcFound, tableParams, runPc, configsCache,
                   canceled, listed, inFlight, ensureArg, ensureErr, bootCache, latest,
                   routeVars, providerVars, pipelineVars, cloudVars, ensureVars, boundVars>>

\* lines 102-112
add ==
    \E r \in RunResources, data \in DataMaps :
        HandlerCalled("add", ConfigMap(r, data), configMapToEgressConfig(ConfigMap(r, data)))

\* lines 114-124
update ==
    \E r \in RunResources, data \in DataMaps :
        HandlerCalled("update", ConfigMap(r, data), configMapToEgressConfig(ConfigMap(r, data)))

\* lines 126-142: the event of a deletion has no IP addresses
del ==
    \E r \in RunResources, data \in DataMaps :
        HandlerCalled("del", ConfigMap(r, data), EgressConfig(r, {}))

NextWatcher == add \/ update \/ del \/ Receive \/ EnsureReturn \/ Tick

SpecWatcher == InitWatcher /\ [][NextWatcher]_vars

(***************************************************************************)
(* Ensure in an account with stacks of other owners: stacks that carry one *)
(* of the ownership tags, or an ownership key with another value           *)
(***************************************************************************)
\* number of stacks of the account
MaxStacks == 2

\* a stack with the cluster tag and no application tag
ClusterTagStack ==
    Stack("other-cluster-tag",
          tagMapToCloudformationTags((clusterIDTagPrefix \o clusterID) :> resourceLifecycleOwned),
          "CREATE_COMPLETE", GarbageTemplate)
\* a stack with the application tag and no cluster tag
ApplicationTagStack ==
    Stack("other-application-tag",
          tagMapToCloudformationTags(kubernetesApplicationTagKey :> controllerID
                                        @@ "foo" :> "bar"),
          "CREATE_COMPLETE", GarbageTemplate)
\* a stack of this controller in a cluster that shares the resource
SharedStack ==
    Stack("other-shared",
          tagMapToCloudformationTags((clusterIDTagPrefix \o clusterID) :> "shared"
                                        @@ kubernetesApplicationTagKey :> controllerID),
          "CREATE_COMPLETE", GarbageTemplate)

StackPool ==
    <<ClusterTagStack, ApplicationTagStack, SharedStack, ForeignStack, ManagedStack, LegacyStack>>
\* the stacks DescribeStacks lists: up to MaxStacks different stacks of the pool
StackLists ==
    UNION { {l \in [1..n -> {StackPool[i] : i \in 1..Len(StackPool)}] :
                \A i \in 1..n, j \in 1..n : i # j => l[i] # l[j]} :
            n \in 1..(IF MaxStacks < Len(StackPool) THEN MaxStacks ELSE Len(StackPool)) }

InitDiscovery ==
    /\ dry = FALSE
    /\ stackTerminationProtection = FALSE
    /\ additionalStackTags = ClobberingTags
    /\ vpcID = ""
    /\ pNatCidrBlocks = natCidrBlocks
    /\ NoPipeline
    /\ ec2 = TopoStandard
    /\ stacks \in StackLists
    /\ pc = "idle"
    /\ configs = [r \in EnsureResources |-> {}]
    /\ calls = <<>>
    /\ result = ""
    /\ waitName = ""
    /\ waitKind = ""
    /\ elapsed = 0
    /\ ensureCalls = 0
    /\ faultsInjected = 0
    /\ grConfigs = [r \in Resources |-> {}]
    /\ grOrder = <<>>
    /\ grResult = {}
    /\ grDone = TRUE
    /\ NoTemplateCall
    /\ NoController

SpecDiscovery == InitDiscovery /\ [][Next]_vars

(***************************************************************************)
(* The ordering pass of generateStackSpec and the parameters of the route  *)
(* tables, for every list of route tables DescribeRouteTables can return   *)
(***************************************************************************)
\* number of route tables of the VPC
MaxRouteTables == 3
\* the largest number of entries of the cache the template is generated for
MaxTableEntries == 1

\* two tables of the standard name in the first zone and one in the second,
\* a table of another name, a table with the standard name of another zone,
\* and a table without tags
RouteTablePool ==
    << RouteTable("rtb-a", tagDefaultAZKeyRouteTableID :> "eu-central-1a"
                              @@ "Name" :> "dmz-eu-central-1a"),
       RouteTable("rtb-b", tagDefaultAZKeyRouteTableID :> "eu-central-1b"
                              @@ "Name" :> "dmz-eu-central-1b"),
       RouteTable("rtb-c", tagDefaultAZKeyRouteTableID :> "eu-central-1a"
                              @@ "Name" :> "private-eu-central-1a"),
       RouteTable("rtb-x", <<>>),
       RouteTable("rtb-d", tagDefaultAZKeyRouteTableID :> "eu-central-1a"
                              @@ "Name" :> "dmz-eu-central-1a"),
       RouteTable("rtb-e", tagDefaultAZKeyRouteTableID :> "eu-central-1b"
                              @@ "Name" :> "dmz-eu-central-1a") >>
\* DescribeRouteTablesOutput.RouteTables: different tables of the pool in any order
RouteTableLists ==
    UNION { {l \in [1..n -> {RouteTablePool[i] : i \in 1..Len(RouteTablePool)}] :
                \A i \in 1..n, j \in 1..n : i # j => l[i] # l[j]} :
            n \in 0..(IF MaxRouteTables < Len(RouteTablePool)
                      THEN MaxRouteTables ELSE Len(RouteTablePool)) }

\* the caches generateStackSpec is called with
TableConfigs == {c \in ConfigsOver(Resources, CIDRs) : EntryCount(c) <= MaxTableEntries}

\* lines 257-317 on the route tables rt
SortedParams(rt) ==
    [sorted |-> SortRouteTables(rt), params |-> RouteTableParams(SortRouteTables(rt), 1)]

InitTables ==
    /\ ec2 \in {[TopoStandard EXCEPT !.routeTables = l] : l \in RouteTableLists}
    /\ tableParams = <<>>
    /\ vpcFound = <<>>
    /\ cmObject = <<>>
    /\ tplConfigs \in TableConfigs
    /\ tplOrder = <<>>
    /\ tplResult = <<>>
    /\ tplDone = TRUE
    /\ dry = FALSE
    /\ stackTerminationProtection = FALSE
    /\ additionalStackTags = <<>>
    /\ vpcID = ""
    /\ pNatCidrBlocks = natCidrBlocks
    /\ NoPipeline
    /\ stacks = <<>>
    /\ pc = "idle"
    /\ configs = <<>>
    /\ calls = <<>>
    /\ result = ""
    /\ waitName = ""
    /\ waitKind = ""
    /\ elapsed = 0
    /\ ensureCalls = 0
    /\ faultsInjected = 0
    /\ grConfigs = [r \in Resources |-> {}]
    /\ grOrder = <<>>
    /\ grResult = {}
    /\ grDone = TRUE
    /\ NoController

\* one call of generateStackSpec, from the sort to the template, which is
\* generated unless a table has an unrecognized zone
CallSortRouteTables ==
    /\ tableParams = <<>>
    /\ tableParams' = <<SortedParams(ec2.routeTables)>>
    /\ IF SortedParams(ec2.routeTables).params.err # ""
       THEN UNCHANGED <<tplOrder, tplResult>>
       ELSE \E o \in TemplateOrders(tplConfigs) :
               /\ tplOrder' = o
               /\ tplResult' = TemplateOf(tplConfigs, o)
    /\ UNCHANGED <<tplConfigs, tplDone, vpcFound, cmObject, runVars,
                   routeVars, providerVars, pipelineVars, cloudVars, ensureVars, boundVars>>

NextTables == CallSortRouteTables

SpecTables == InitTables /\ [][NextTables]_vars

(***************************************************************************)
(* The channel pipeline of run (kube/configmap.go): initSync, the watcher, *)
(* the merger and the provider goroutine, the channel watchCH with its     *)
(* buffer of two, and the unbuffered channels providerCH and quitCH.  A    *)
(* send on an unbuffered channel and the receive of it are one step.  The  *)
(* provider is the interface with Create, Update and Delete: a call is in  *)
(* progress until it returns nil or an error.                              *)
(***************************************************************************)
\* number of values of DataValuePool the data of a ConfigMap draws from
NumPipelineValues == 3
\* the largest number of entries of the data of a ConfigMap
MaxPipelineData == 1

\* "%s/%s" of the namespace and the name of the ConfigMap
PipelineKey == "default/egress"
PipelineValues ==
    {DataValuePool[i] : i \in 1..(IF NumPipelineValues < Len(DataValuePool)
                                  THEN NumPipelineValues ELSE Len(DataValuePool))}
\* the values of cmap.Data in the order the loop ranges over them
PipelineData == UNION {[1..n -> PipelineValues] : n \in 0..MaxPipelineData}
\* the kinds of event the watch delivers; "NotConfigMap" is an event whose
\* object is no ConfigMap
EventTypes == {"Added", "Modified", "Deleted", "Error", "NotConfigMap"}
\* what a call of the provider returns, by the type of the cause of the error
ProviderOutcomes == {"nil", "AlreadyExistsError", "DoesNotExistError", "error"}

\* lines 97-110, ListConfigMaps: a key only for a ConfigMap that has data
ListConfigMaps(data) == IF data = <<>> THEN <<>> ELSE PipelineKey :> data

\* lines 59-86: the map the watcher sends for an event
WatcherResults(type, data) ==
    IF type = "Deleted" THEN PipelineKey :> <<>> ELSE PipelineKey :> data

\* lines 352-355: the merger takes the entries of m into result
MergeInto(merged, m) == m @@ merged

\* lines 361-368: the values of the map in the order keyOrder of its keys, each
\* value once
RECURSIVE UniqueAppend(_, _)
UniqueAppend(acc, v) ==
    IF v = <<>> THEN acc
    ELSE UniqueAppend(IF \E i \in 1..Len(acc) : acc[i] = Head(v) THEN acc
                      ELSE Append(acc, Head(v)), Tail(v))
RECURSIVE FlushIn(_, _, _)
FlushIn(merged, keyOrder, acc) ==
    IF keyOrder = <<>> THEN acc
    ELSE FlushIn(merged, Tail(keyOrder), UniqueAppend(acc, merged[Head(keyOrder)]))

\* lines 385-390 for each value of the pool: the String of the network of
\* the value, or nothing when net.ParseCIDR fails
ParsedValue ==
    [s \in PipelineValues |->
        IF ParseCIDR(s).err THEN <<>> ELSE <<CIDRString(ParseCIDR(s).ipnet)>>]
\* lines 383-391: the String of the network of every input that parses
RECURSIVE ParsedOutput(_)
ParsedOutput(input) ==
    IF input = <<>> THEN <<>> ELSE ParsedValue[Head(input)] \o ParsedOutput(Tail(input))

\* lines 392-394: sort.SliceStable with < on strings (a stable insertion sort)
RECURSIVE StrInsert(_, _)
StrInsert(s, x) ==
    IF s = <<>> THEN <<x>>
    ELSE IF StrLess(x, s[Len(s)]) THEN StrInsert(SubSeq(s, 1, Len(s) - 1), x) \o <<s[Len(s)]>>
    ELSE Append(s, x)
RECURSIVE SortStrings(_)
SortStrings(s) ==
    IF s = <<>> THEN <<>> ELSE StrInsert(SortStrings(SubSeq(s, 1, Len(s) - 1)), s[Len(s)])

\* sameValues
sameValues(a, b) == Len(a) = Len(b) /\ \A i \in 1..Len(a) : a[i] = b[i]

\* run has started the four goroutines and waits for the signal
InitPipeline ==
    /\ mainPc = "signal"
    /\ quitsSent = 0
    /\ initPc = "list"
    /\ initList = <<>>
    /\ watcherPc = "watch"
    /\ results = <<>>
    /\ watchCH = <<>>
    /\ mergerPc = "select"
    /\ mergerResult = <<>>
    /\ mergerRes = <<>>
    /\ providerPc = "select"
    /\ providerBootstrap = TRUE
    /\ resultCache = <<>>
    /\ output = <<>>
    /\ NoTemplateCall
    /\ NoController
    /\ dry = FALSE
    /\ stackTerminationProtection = FALSE
    /\ additionalStackTags = <<>>
    /\ vpcID = ""
    /\ pNatCidrBlocks = natCidrBlocks
    /\ ec2 = TopoStandard
    /\ stacks = <<>>
    /\ pc = "idle"
    /\ configs = <<>>
    /\ calls = <<>>
    /\ result = ""
    /\ waitName = ""
    /\ waitKind = ""
    /\ elapsed = 0
    /\ ensureCalls = 0
    /\ faultsInjected = 0
    /\ grConfigs = [r \in Resources |-> {}]
    /\ grOrder = <<>>
    /\ grResult = {}
    /\ grDone = TRUE

pipelineOtherVars == <<routeVars, providerVars, cloudVars, ensureVars, boundVars, templateVars,
                       runVars>>

\* the process runs: no log.Fatalf has ended it and run has not returned
ProcessRuns == mainPc \in {"signal", "quit", "wait"}

\* line 315: the signal arrives
Signal ==
    /\ mainPc = "signal"
    /\ mainPc' = "quit"
    /\ UNCHANGED <<quitsSent, initPc, initList, watcherPc, results, watchCH, mergerPc,
                   mergerResult, mergerRes, providerPc, providerBootstrap, resultCache, output,
                   pipelineOtherVars>>

\* lines 316-319: one send of the loop of run, received by a worker
QuitSent ==
    /\ mainPc = "quit"
    /\ quitsSent' = quitsSent + 1
    /\ mainPc' = IF quitsSent + 1 = 3 THEN "wait" ELSE "quit"

\* lines 320-321: wg.Wait returns when the four goroutines are done
WaitDone ==
    /\ mainPc = "wait"
    /\ initPc = "done" /\ watcherPc = "done" /\ mergerPc = "done" /\ providerPc = "done"
    /\ mainPc' = "shutdown"
    /\ UNCHANGED <<quitsSent, initPc, initList, watcherPc, results, watchCH, mergerPc,
                   mergerResult, mergerRes, providerPc, providerBootstrap, resultCache, output,
                   pipelineOtherVars>>

\* lines 328-332, initSync: the list succeeds, or log.Fatalf ends the process
InitListed ==
    /\ ProcessRuns
    /\ initPc = "list"
    /\ \E data \in PipelineData : initList' = ListConfigMaps(data)
    /\ initPc' = "send"
    /\ UNCHANGED <<mainPc, quitsSent, watcherPc, results, watchCH, mergerPc,
                   mergerResult, mergerRes, providerPc, providerBootstrap, resultCache, output,
                   pipelineOtherVars>>
InitListFails ==
    /\ ProcessRuns
    /\ initPc = "list"
    /\ mainPc' = "fatal"
    /\ UNCHANGED <<quitsSent, initPc, initList, watcherPc, results, watchCH, mergerPc,
                   mergerResult, mergerRes, providerPc, providerBootstrap, resultCache, output,
                   pipelineOtherVars>>
\* line 333 and the deferred wg.Done: the send waits for room in the buffer
InitSend ==
    /\ ProcessRuns
    /\ initPc = "send"
    /\ Len(watchCH) < 2
    /\ watchCH' = Append(watchCH, initList)
    /\ initPc' = "done"
    /\ initList' = <<>>
    /\ UNCHANGED <<mainPc, quitsSent, watcherPc, results, mergerPc,
                   mergerResult, mergerRes, providerPc, providerBootstrap, resultCache, output,
                   pipelineOtherVars>>

\* lines 46-52 and 339-342: the watch is set up, or log.Fatalf ends the process
WatchStarted ==
    /\ ProcessRuns
    /\ watcherPc = "watch"
    /\ watcherPc' = "select"
    /\ UNCHANGED <<mainPc, quitsSent, initPc, initList, results, watchCH, mergerPc,
                   mergerResult, mergerRes, providerPc, providerBootstrap, resultCache, output,
                   pipelineOtherVars>>
WatchFails ==
    /\ ProcessRuns
    /\ watcherPc = "watch"
    /\ mainPc' = "fatal"
    /\ UNCHANGED <<quitsSent, initPc, initList, watcherPc, results, watchCH, mergerPc,
                   mergerResult, mergerRes, providerPc, providerBootstrap, resultCache, output,
                   pipelineOtherVars>>
\* lines 59-86: the case of evCH
WatcherEvent ==
    /\ ProcessRuns
    /\ watcherPc = "select"
    /\ \E type \in EventTypes, data \in PipelineData :
          IF type \in {"Error", "NotConfigMap"}
          THEN watcherPc' = "sleep" /\ results' = <<>>
          ELSE watcherPc' = "send" /\ results' = WatcherResults(type, data)
    /\ UNCHANGED <<mainPc, quitsSent, initPc, initList, watchCH, mergerPc,
                   mergerResult, mergerRes, providerPc, providerBootstrap, resultCache, output,
                   pipelineOtherVars>>
\* lines 64-65 and 76-77: time.Sleep is over
WatcherSleepDone ==
    /\ ProcessRuns
    /\ watcherPc = "sleep"
    /\ watcherPc' = "select"
    /\ UNCHANGED <<mainPc, quitsSent, initPc, initList, results, watchCH, mergerPc,
                   mergerResult, mergerRes, providerPc, providerBootstrap, resultCache, output,
                   pipelineOtherVars>>
\* line 87: the send waits for room in the buffer
WatcherSend ==
    /\ ProcessRuns
    /\ watcherPc = "send"
    /\ Len(watchCH) < 2
    /\ watchCH' = Append(watchCH, results)
    /\ results' = <<>>
    /\ watcherPc' = "select"
    /\ UNCHANGED <<mainPc, quitsSent, initPc, initList, mergerPc,
                   mergerResult, mergerRes, providerPc, providerBootstrap, resultCache, output,
                   pipelineOtherVars>>
\* lines 88-90: the case of quitCH
WatcherQuit ==
    /\ watcherPc = "select"
    /\ QuitSent
    /\ watcherPc' = "done"
    /\ UNCHANGED <<initPc, initList, results, watchCH, mergerPc,
                   mergerResult, mergerRes, providerPc, providerBootstrap, resultCache, output,
                   pipelineOtherVars>>

\* lines 351-355: the case of watcherCH
MergerReceive ==
    /\ ProcessRuns
    /\ mergerPc = "select"
    /\ watchCH # <<>>
    /\ mergerResult' = MergeInto(mergerResult, Head(watchCH))
    /\ watchCH' = Tail(watchCH)
    /\ UNCHANGED <<mainPc, quitsSent, initPc, initList, watcherPc, results, mergerPc,
                   mergerRes, providerPc, providerBootstrap, resultCache, output,
                   pipelineOtherVars>>
\* lines 357-368: the case of time.After, up to the send on providerCH
MergerFlush ==
    /\ ProcessRuns
    /\ mergerPc = "select"
    /\ \E keyOrder \in Perms(DOMAIN mergerResult) :
          mergerRes' = FlushIn(mergerResult, keyOrder, <<>>)
    /\ mergerPc' = "send"
    /\ UNCHANGED <<mainPc, quitsSent, initPc, initList, watcherPc, results, watchCH,
                   mergerResult, providerPc, providerBootstrap, resultCache, output,
                   pipelineOtherVars>>
\* lines 370-372: the case of quitCH
MergerQuit ==
    /\ mergerPc = "select"
    /\ QuitSent
    /\ mergerPc' = "done"
    /\ UNCHANGED <<initPc, initList, watcherPc, results, watchCH,
                   mergerResult, mergerRes, providerPc, providerBootstrap, resultCache, output,
                   pipelineOtherVars>>

\* lines 383-449 for the slice input: where the provider goroutine goes on (in
\* a call of the provider or in its select), and its locals
HandleInput(input, boot, cache) ==
    LET out == SortStrings(ParsedOutput(input))
    IN  IF boot
        THEN [pc |-> "select", bootstrap |-> FALSE, resultCache |-> cache, output |-> <<>>]
        ELSE IF Len(input) = 0
        THEN IF ~sameValues(cache, out)
             THEN [pc |-> "Delete", bootstrap |-> FALSE, resultCache |-> out, output |-> <<>>]
             ELSE [pc |-> "select", bootstrap |-> FALSE, resultCache |-> cache, output |-> <<>>]
        ELSE IF Len(out) > 0 /\ ~sameValues(cache, out)
        THEN [pc |-> IF Len(cache) = 0 THEN "Create" ELSE "Update",
              bootstrap |-> FALSE, resultCache |-> cache, output |-> out]
        ELSE [pc |-> "select", bootstrap |-> FALSE, resultCache |-> cache, output |-> <<>>]

\* the case of mergerCH, the receive of the send of line 369, up to the call
\* of the provider or to the next round of the loop
ProviderReceive ==
    /\ ProcessRuns
    /\ providerPc = "select"
    /\ mergerPc = "send"
    /\ mergerPc' = "select"
    /\ mergerRes' = <<>>
    /\ providerPc' = HandleInput(mergerRes, providerBootstrap, resultCache).pc
    /\ providerBootstrap' = HandleInput(mergerRes, providerBootstrap, resultCache).bootstrap
    /\ resultCache' = HandleInput(mergerRes, providerBootstrap, resultCache).resultCache
    /\ output' = HandleInput(mergerRes, providerBootstrap, resultCache).output
    /\ UNCHANGED <<mainPc, quitsSent, initPc, initList, watcherPc, results, watchCH,
                   mergerResult, pipelineOtherVars>>
\* lines 413 and 453-455: p.Delete returns
DeleteReturns ==
    /\ ProcessRuns
    /\ providerPc = "Delete"
    /\ providerPc' = "select"
    /\ UNCHANGED <<mainPc, quitsSent, initPc, initList, watcherPc, results, watchCH, mergerPc,
                   mergerResult, mergerRes, providerBootstrap, resultCache, output,
                   pipelineOtherVars>>
\* lines 421-427 and 434-440, backoff.RetryNotify on p.Create: nil ends it (and
\* line 446 sets the cache); an error is handed to createNotify, which calls
\* p.Update for an AlreadyExistsError, and the constant back-off never stops
CreateReturns ==
    /\ ProcessRuns
    /\ providerPc = "Create"
    /\ \E outcome \in ProviderOutcomes :
          IF outcome = "nil"
          THEN providerPc' = "select" /\ resultCache' = output /\ output' = <<>>
          ELSE /\ providerPc' = IF outcome = "AlreadyExistsError" THEN "notify" ELSE "backoff"
               /\ UNCHANGED <<resultCache, output>>
    /\ UNCHANGED <<mainPc, quitsSent, initPc, initList, watcherPc, results, watchCH, mergerPc,
                   mergerResult, mergerRes, providerBootstrap, pipelineOtherVars>>
\* lines 398-406: the p.Update of createNotify returns
NotifyReturns ==
    /\ ProcessRuns
    /\ providerPc = "notify"
    /\ providerPc' = "backoff"
    /\ UNCHANGED <<mainPc, quitsSent, initPc, initList, watcherPc, results, watchCH, mergerPc,
                   mergerResult, mergerRes, providerBootstrap, resultCache, output,
                   pipelineOtherVars>>
\* line 378: the five minutes of the constant back-off are over
RetryBackoffDone ==
    /\ ProcessRuns
    /\ providerPc = "backoff"
    /\ providerPc' = "Create"
    /\ UNCHANGED <<mainPc, quitsSent, initPc, initList, watcherPc, results, watchCH, mergerPc,
                   mergerResult, mergerRes, providerBootstrap, resultCache, output,
                   pipelineOtherVars>>
\* lines 429-446: p.Update returns
UpdateReturns ==
    /\ ProcessRuns
    /\ providerPc = "Update"
    /\ \E outcome \in ProviderOutcomes :
          IF outcome = "DoesNotExistError"
          THEN providerPc' = "Create" /\ UNCHANGED <<resultCache, output>>
          ELSE providerPc' = "select" /\ resultCache' = output /\ output' = <<>>
    /\ UNCHANGED <<mainPc, quitsSent, initPc, initList, watcherPc, results, watchCH, mergerPc,
                   mergerResult, mergerRes, providerBootstrap, pipelineOtherVars>>
\* lines 457-460: the case of quitCH
ProviderQuit ==
    /\ providerPc = "select"
    /\ QuitSent
    /\ providerPc' = "done"
    /\ UNCHANGED <<initPc, initList, watcherPc, results, watchCH, mergerPc,
                   mergerResult, mergerRes, providerBootstrap, resultCache, output,
                   pipelineOtherVars>>

NextPipeline ==
    \/ Signal \/ WaitDone
    \/ InitListed \/ InitListFails \/ InitSend
    \/ WatchStarted \/ WatchFails \/ WatcherEvent \/ WatcherSleepDone \/ WatcherSend
    \/ WatcherQuit
    \/ MergerReceive \/ MergerFlush \/ MergerQuit
    \/ ProviderReceive \/ DeleteReturns \/ CreateReturns \/ NotifyReturns \/ RetryBackoffDone
    \/ UpdateReturns \/ ProviderQuit

SpecPipeline == InitPipeline /\ [][NextPipeline]_vars

\* Every goroutine is scheduled, a sleep and a call of the provider end, a
\* select with a message to receive does not wait for ever, and a select whose
\* quit case is ready again and again takes it at some time (the runtime
\* chooses among the ready cases at random).  Nothing is assumed about
\* the signal, the events of the watch, the timer of the merger or what the
\* provider returns.
SpecPipelineFair ==
    /\ SpecPipeline
    /\ WF_vars(WaitDone)
    /\ WF_vars(InitListed \/ InitListFails \/ InitSend)
    /\ WF_vars(WatchStarted \/ WatchFails \/ WatcherSleepDone \/ WatcherSend)
    /\ WF_vars(MergerReceive)
    /\ WF_vars(ProviderReceive \/ DeleteReturns \/ CreateReturns \/ NotifyReturns
                  \/ RetryBackoffDone \/ UpdateReturns)
    /\ SF_vars(WatcherQuit)
    /\ SF_vars(MergerQuit)
    /\ SF_vars(ProviderQuit)

(***************************************************************************)
(* Properties of GenerateRoutes (checked under SpecRoutes)                 *)
(***************************************************************************)
\* the blocks of the input, whatever Resource holds them
InputBlocks == UNION {grConfigs[r] : r \in DOMAIN grConfigs}

\* every address of c is an address of d, and d is another block
StrictlyInside(c, d) ==
    /\ c # d
    /\ IPToInt(d.ip) <= IPToInt(c.ip)
    /\ IPToInt(c.ip) + 2 ^ (32 - c.ones) <= IPToInt(d.ip) + 2 ^ (32 - d.ones)

\* C10: GenerateRoutes never returns a block that lies inside another block of
\* its input: when the input holds a block and a strict superblock of it, in
\* the same Resource or in different ones, the smaller block is not returned.
C10_NoContainedRoute ==
    grDone => \A c \in InputBlocks, d \in InputBlocks :
                 StrictlyInside(c, d) => CIDRString(c) \notin grResult

\* a call whose input holds a block in one Resource and a superblock of it in
\* another, and a call whose input holds both in one Resource
C10_Witness ==
    /\ grDone
    /\ \E r1 \in DOMAIN grConfigs, r2 \in DOMAIN grConfigs :
          /\ r1 # r2
          /\ \E c \in grConfigs[r1], d \in grConfigs[r2] :
                /\ StrictlyInside(c, d)
                /\ c \notin grConfigs[r2]
                /\ CIDRString(d) \in grResult
                /\ CIDRString(c) \notin grResult

\* the blocks of the input that lie inside no other block of the input
MaximalBlocks == {c \in InputBlocks : ~ \E d \in InputBlocks : StrictlyInside(c, d)}

\* C11: GenerateRoutes returns exactly the input blocks that lie inside no
\* other input block, each once, and nothing else; so every input block is a
\* returned block or lies inside one, and two disjoint blocks of equal size
\* are both returned.
C11_MaximalBlocks ==
    grDone =>
       /\ grResult = {CIDRString(c) : c \in MaximalBlocks}
       /\ Cardinality(grResult) = Cardinality(MaximalBlocks)
       /\ \A c \in InputBlocks : \E d \in InputBlocks :
             /\ CIDRString(d) \in grResult
             /\ c = d \/ StrictlyInside(c, d)
       /\ \A c \in InputBlocks, d \in InputBlocks :
             (/\ c # d /\ c.ones = d.ones
              /\ \A e \in InputBlocks : ~StrictlyInside(c, e) /\ ~StrictlyInside(d, e))
                => {CIDRString(c), CIDRString(d)} \subseteq grResult

\* the call of the test: one Resource lists 10.0.0.0/16, 10.0.0.0/17 and
\* 10.1.0.0/17, another lists 10.1.0.0/17 again; the two disjoint blocks
\* 10.0.0.0/16 and 10.1.0.0/17 are returned
C11_Witness ==
    /\ grDone
    /\ \E r1 \in DOMAIN grConfigs, r2 \in DOMAIN grConfigs :
          /\ r1 # r2
          /\ grConfigs[r1] = {CIDRPool[1], CIDRPool[2], CIDRPool[3]}
          /\ grConfigs[r2] = {CIDRPool[3]}
    /\ grResult = {CIDRString(CIDRPool[1]), CIDRString(CIDRPool[3])}

\* the inputs that hold the same set of blocks as the input of the call
SameBlocks ==
    { c \in ConfigsOver(Resources, CIDRs) :
         /\ EntryCount(c) <= MaxEntries
         /\ UNION {c[r] : r \in DOMAIN c} = InputBlocks }

\* C12: the result of GenerateRoutes is the result for every input that holds
\* the same set of blocks, however the blocks are spread over the Resources,
\* and for every order in which the two levels of maps are iterated.
C12_OrderIndependent ==
    grDone => \A c \in SameBlocks : \A ro \in Perms(Resources), co \in Perms(CIDRs) :
                 GenerateRoutesIn(c, ro, co) = grResult

\* a call that iterated the Resources and the blocks in another order than the
\* one they are listed in, on an input with a block and its superblock, which
\* can be spread over the Resources in several ways
C12_Witness ==
    /\ grDone
    /\ grOrder[1] # [i \in 1..MaxResources |-> i]
    /\ \E c \in InputBlocks, d \in InputBlocks :
          /\ StrictlyInside(c, d)
          /\ \E i \in 1..Len(grOrder[2]), j \in 1..Len(grOrder[2]) :
                i < j /\ grOrder[2][i] = d /\ grOrder[2][j] = c
    /\ Cardinality(SameBlocks) > 1
    /\ Cardinality(grResult) < Cardinality(InputBlocks)

(***************************************************************************)
(* Properties of generateTemplate                                          *)
(***************************************************************************)
\* the map a serialized list of entries stands for
EntriesMap(entries) ==
    [nm \in {entries[i].name : i \in 1..Len(entries)} |->
        (CHOOSE e \in {entries[i] : i \in 1..Len(entries)} : e.name = nm).value]

\* C13: the serialized template of a call is the one of every call on the same
\* cache and route table parameters, whatever the order in which the cache and
\* the aggregated routes are ranged over; and it holds the Parameters and
\* Resources of the template Ensure compares and submits.
C13_TemplateDeterministic ==
    tplDone =>
       /\ \A o \in TemplateOrders(tplConfigs) : TemplateOf(tplConfigs, o) = tplResult
       /\ LET params == RouteTableParams(SortRouteTables(ec2.routeTables), 1)
              t == generateTemplate(GenerateRoutes(tplConfigs, tplOrder[1]),
                                    params.order, params.zoneIndexes)
          IN  /\ EntriesMap(tplResult.Resources) = t.Resources
              /\ DOMAIN EntriesMap(tplResult.Parameters) = t.Parameters

\* a call with two route table parameters on a cache that aggregates to two
\* routes, ranged over in the reverse of the order of their keys: the
\* template holds the four routes
C13_Witness ==
    /\ tplDone
    /\ ec2 = TopoStandard
    /\ Len(tplOrder[2]) = 2
    /\ KeyLess(CleanCidrEntry(tplOrder[2][2]), CleanCidrEntry(tplOrder[2][1]))
    /\ Cardinality({i \in 1..Len(tplResult.Resources) :
                       tplResult.Resources[i].name[1] = "RouteToNAT"}) = 4

\* json.Unmarshal of a serialized template: the maps of its entries
Unmarshal(t) ==
    [kind |-> "json",
     Parameters |-> {t.Parameters[k].name : k \in 1..Len(t.Parameters)},
     Resources |-> EntriesMap(t.Resources)]

\* C35: for every cache and every non-empty list of route table parameters,
\* the routes parsed from the template generated for the cache are the
\* aggregated routes of the cache.
C35_TemplateRoundTrip ==
    (tplDone /\ RouteTableParams(SortRouteTables(ec2.routeTables), 1).order # <<>>) =>
       getCIDRsFromTemplate(Unmarshal(tplResult)) = GenerateRoutes(tplConfigs, tplOrder[1])

\* a template generated for two route table parameters and a cache of three
\* blocks that aggregates to two routes: the two are parsed from it
C35_Witness ==
    /\ tplDone
    /\ Len(RouteTableParams(SortRouteTables(ec2.routeTables), 1).order) = 2
    /\ EntryCount(tplConfigs) >= 3
    /\ Cardinality(GenerateRoutes(tplConfigs, tplOrder[1])) = 2
    /\ Cardinality(getCIDRsFromTemplate(Unmarshal(tplResult))) = 2

\* the encoding of a CIDR string, character by character
Enc(r) == [k \in 1..Len(r) |-> IF r[k] = "." THEN "x" ELSE IF r[k] = "/" THEN "y" ELSE r[k]]

\* the name of the route of the aggregated route r at the ordinal i
RouteName(i, r) == <<"RouteToNAT">> \o Itoa(i) \o <<"z">> \o Enc(r)

\* the route resources of a serialized template
RouteEntries(t) ==
    {k \in 1..Len(t.Resources) : t.Resources[k].value.Type = "AWS::EC2::Route"
                                    /\ t.Resources[k].name[1] = "RouteToNAT"}

\* C28: the template of a call has, for every aggregated route r and every
\* route table parameter at the ordinal i, exactly one resource named
\* RouteToNAT<i>z<enc(r)>, a route with the destination r through the table of
\* that parameter; different pairs (i, r) have different names; the template
\* has |routes| x |route table parameters| route resources and no others;
\* and every route table parameter a route refers to is declared.
C28_RoutePerBlockAndTable ==
    tplDone =>
       LET params == RouteTableParams(SortRouteTables(ec2.routeTables), 1).order
           routes == {tplOrder[2][k] : k \in 1..Len(tplOrder[2])}
           pairs == (1..Len(params)) \X routes
           named(pr) == {k \in 1..Len(tplResult.Resources) :
                            tplResult.Resources[k].name = RouteName(pr[1], pr[2])}
       IN  /\ routes = GenerateRoutes(tplConfigs, tplOrder[1])
           /\ \A pr \in pairs :
                 /\ Cardinality(named(pr)) = 1
                 /\ \A k \in named(pr) :
                       /\ k \in RouteEntries(tplResult)
                       /\ tplResult.Resources[k].value.DestinationCidrBlock = StrVal(pr[2])
                       /\ tplResult.Resources[k].value.RouteTableId = RefVal(params[pr[1]])
           /\ \A pr \in pairs, qr \in pairs :
                 pr # qr => RouteName(pr[1], pr[2]) # RouteName(qr[1], qr[2])
           /\ Cardinality(RouteEntries(tplResult)) = Cardinality(routes) * Len(params)
           /\ \A k \in RouteEntries(tplResult) :
                 /\ tplResult.Resources[k].value.RouteTableId.kind = "ref"
                 /\ \E j \in 1..Len(tplResult.Parameters) :
                       tplResult.Parameters[j].name = tplResult.Resources[k].value.RouteTableId.val

\* a call with two route table parameters on a cache that aggregates to two
\* routes: the template has the route of the second route at the second
\* ordinal among its four routes
C28_Witness ==
    /\ tplDone
    /\ Len(RouteTableParams(SortRouteTables(ec2.routeTables), 1).order) = 2
    /\ Len(tplOrder[2]) = 2
    /\ Cardinality(RouteEntries(tplResult)) = 4
    /\ \E k \in RouteEntries(tplResult) :
          /\ tplResult.Resources[k].name = RouteName(2, tplOrder[2][2])
          /\ tplResult.Resources[k].value.DestinationCidrBlock = StrVal(tplOrder[2][2])

(***************************************************************************)
(* Properties of Ensure                                                    *)
(***************************************************************************)
\* the step is a call of Ensure: configs' is its argument, calls' its log
EnsureStep == ensureCalls' = ensureCalls + 1

\* the number of calls of the operations ops in the log c
CountOps(c, ops) == Cardinality({i \in 1..Len(c) : c[i].op \in ops})
\* no call of the log c failed
AllSucceeded(c) == \A i \in 1..Len(c) : c[i].err = ""

MutatingOps == {"CreateStack", "UpdateStack", "DeleteStack", "UpdateTerminationProtection"}

\* both ownership tags, with the values of this cluster and controller
HasOwnership(tags) ==
    /\ [Key |-> "kubernetes.io/cluster/" \o clusterID, Value |-> "owned"] \in tags
    /\ [Key |-> "kubernetes:application", Value |-> controllerID] \in tags
\* the stacks of the cloud that belong to this controller
Managed(stack) == HasOwnership(stack.Tags) \/ stack.StackName = "egress-static-nat"
\* every zone tag of a route table names a configured availability zone
ZonesKnown ==
    \A t \in 1..Len(ec2.routeTables) :
       LET z == routeTableZone(ec2.routeTables[t])
       IN  z.ok => zoneIndex(availabilityZones, z.zone).ok
ManagedStacks == {i \in 1..Len(stacks) : Managed(stacks[i])}

\* C3 as amended: with an empty cache and no managed stack, Ensure makes no API
\* call but the DescribeStacks listing of the discovery, changes no stack, and
\* returns success when the listing succeeded.
C3_EmptyNoop ==
    [][(EnsureStep /\ ManagedStacks = {} /\ CacheLen(configs') = 0) =>
          /\ \A i \in 1..Len(calls') :
                calls'[i].op = "DescribeStacks" /\ calls'[i].StackName = ""
          /\ pc' = "idle"
          /\ stacks' = stacks
          /\ (AllSucceeded(calls') => result' = "ok")]_vars

\* C3 as stated: with an empty cache and no managed stack, Ensure returns
\* success and makes no API call at all (also when no call it makes fails).
C3_ZeroApiCalls ==
    [][(EnsureStep /\ ManagedStacks = {} /\ CacheLen(configs') = 0 /\ AllSucceeded(calls')) =>
          (result' = "ok" /\ calls' = <<>>)]_vars

\* an Ensure call with an empty cache that found no stack and returned success
C3_Witness ==
    /\ ensureCalls > 0
    /\ pc = "idle"
    /\ CacheLen(configs) = 0
    /\ ManagedStacks = {}
    /\ result = "ok"
    /\ Len(calls) = 1
    /\ calls[1].op = "DescribeStacks"

\* C7: in dry-run mode no Ensure call issues CreateStack, UpdateStack,
\* DeleteStack or UpdateTerminationProtection or waits for a stack, and a call
\* none of whose read calls failed, with known zone tags (so it took the
\* create, update or delete path, or had nothing to do) returns success.
C7_DryRun ==
    dry => /\ pc = "idle"
           /\ CountOps(calls, MutatingOps) = 0
           /\ (ensureCalls > 0 /\ AllSucceeded(calls) /\ ZonesKnown => result = "ok")

\* a dry-run call that took the create path and returned success
C7_Witness ==
    /\ dry
    /\ ensureCalls > 0
    /\ result = "ok"
    /\ CacheLen(configs) > 0
    /\ ManagedStacks = {}
    /\ calls[Len(calls)].op = "DescribeRouteTables"

\* the tags hold both ownership tags and every extra tag under another key
TagsKeepOwnership(tags) ==
    /\ HasOwnership(tags)
    /\ \A k \in DOMAIN additionalStackTags :
          k \notin {"kubernetes.io/cluster/" \o clusterID, "kubernetes:application"}
             => [Key |-> k, Value |-> additionalStackTags[k]] \in tags

\* C8: whatever the extra tags, also when they use the ownership keys with
\* other values, the tags of the StackSpec and of every CreateStack and
\* UpdateStack hold the cluster tag with value "owned", the application tag
\* with the controller id, and every extra tag whose key is no ownership key.
C8_OwnershipTags ==
    /\ TagsKeepOwnership(StackSpecTags)
    /\ \A i \in 1..Len(calls) :
          calls[i].op \in {"CreateStack", "UpdateStack"} => TagsKeepOwnership(calls[i].Tags)

\* a stack was created or updated while the extra tags set both ownership keys
\* to other values and a key of their own
C8_Witness ==
    /\ DOMAIN additionalStackTags = TagKeys
    /\ additionalStackTags["kubernetes.io/cluster/" \o clusterID] # "owned"
    /\ additionalStackTags["kubernetes:application"] # controllerID
    /\ \E i \in 1..Len(calls) :
          /\ calls[i].op = "UpdateStack"
          /\ calls[i].err = ""
          /\ [Key |-> "foo", Value |-> additionalStackTags["foo"]] \in calls[i].Tags

\* the managed stack of the cloud (there is at most one in the model)
TheManaged == stacks[CHOOSE i \in ManagedStacks : TRUE]
\* the aggregated set of the cache cfgs is s, for some order of iteration
Aggregates(cfgs, s) == \E o \in MapOrders(cfgs) : GenerateRoutes(cfgs, o) = s
\* the index of the first call of the operations ops in the log c, 0 if none
FirstOp(c, ops) ==
    IF CountOps(c, ops) = 0 THEN 0
    ELSE CHOOSE i \in 1..Len(c) : c[i].op \in ops /\ \A j \in 1..(i - 1) : c[j].op \notin ops

\* C2: with a managed stack and a non-empty cache, Ensure writes only after it
\* fetched the live template, and when the routes parsed from the live
\* template equal the aggregated set of the cache it issues neither UpdateStack
\* nor UpdateTerminationProtection, whatever the order the cache is iterated in.
C2_DriftShortCircuit ==
    [][(EnsureStep /\ ManagedStacks # {} /\ CacheLen(configs') > 0) =>
          LET w == FirstOp(calls', MutatingOps)
          IN  /\ w # 0 => \E g \in 1..(w - 1) :
                            /\ calls'[g].op = "GetTemplate"
                            /\ calls'[g].StackName = TheManaged.StackName
                            /\ calls'[g].err = ""
              /\ Aggregates(configs', getCIDRsFromTemplate(TheManaged.TemplateBody))
                    => /\ w = 0
                       /\ stacks' = stacks
                       /\ pc' = "idle"]_vars

\* a call whose two-block cache aggregates to the routes of the live template
\* returned after GetTemplate
C2_Witness ==
    /\ ~dry
    /\ pc = "idle"
    /\ result = "ok"
    /\ ManagedStacks # {}
    /\ Cardinality(UNION {configs[r] : r \in DOMAIN configs}) = 2
    /\ Aggregates(configs, getCIDRsFromTemplate(TheManaged.TemplateBody))
    /\ Len(calls) > 0
    /\ calls[Len(calls)].op = "GetTemplate"
    /\ calls[Len(calls)].err = ""

\* the Parameters of a call name the VPC, the internet gateway and every route
\* table that carries a zone tag
StackParamsOk(params) ==
    /\ <<"VPCIDParameter">> \in DOMAIN params
    /\ params[<<"VPCIDParameter">>] = ec2.vpcs[1].VpcId
    /\ <<"InternetGatewayIDParameter">> \in DOMAIN params
    /\ params[<<"InternetGatewayIDParameter">>] = ec2.igws[1]
    /\ \A t \in 1..Len(ec2.routeTables) :
          "AvailabilityZone" \in DOMAIN ec2.routeTables[t].Tags
             => \E k \in DOMAIN params : params[k] = ec2.routeTables[t].RouteTableId

\* the CreateStack that ends the log c carries the flag, the parameters and
\* the ownership tags, and the log holds no other write
OneCreateStack(c) ==
    /\ CountOps(c, {"CreateStack"}) = 1
    /\ CountOps(c, {"UpdateStack", "DeleteStack", "UpdateTerminationProtection"}) = 0
    /\ c[Len(c)].op = "CreateStack"
    /\ c[Len(c)].EnableTerminationProtection = stackTerminationProtection
    /\ StackParamsOk(c[Len(c)].Parameters)
    /\ HasOwnership(c[Len(c)].Tags)

\* the step is the return of the wait of kind: the deadline has passed
WaitTimedOut == pc = "sleep" /\ elapsed >= MaxPolls
\* the step is the return of the wait after a poll of a terminal status
WaitSawTerminal ==
    /\ pc = "wait"
    /\ calls'[Len(calls')].op = "DescribeStacks"
    /\ calls'[Len(calls')].StackName = waitName
    /\ \E i \in 1..Len(stacks) :
          /\ stacks[i].StackName = waitName
          /\ stacks[i].StackStatus \in SuccessStatuses \cup FailureStatuses
\* the step is the return of the wait after a poll that failed
WaitPollFailed ==
    /\ pc = "wait"
    /\ calls'[Len(calls')].op = "DescribeStacks"
    /\ calls'[Len(calls')].err # ""

OneDeleteStack(c, name) ==
    /\ CountOps(c, {"DeleteStack"}) = 1
    /\ CountOps(c, {"CreateStack", "UpdateStack"}) = 0
    /\ c[Len(c)].op = "DeleteStack"
    /\ c[Len(c)].StackName = name
    /\ IF stackTerminationProtection
       THEN /\ CountOps(c, {"UpdateTerminationProtection"}) = 1
            /\ c[Len(c) - 1].op = "UpdateTerminationProtection"
            /\ c[Len(c) - 1].StackName = name
            /\ c[Len(c) - 1].EnableTerminationProtection = FALSE
       ELSE CountOps(c, {"UpdateTerminationProtection"}) = 0

\* a poll of the wait of a delete that found no stack ends the call in success
DeleteWaitNotFound ==
    (/\ waitKind = "delete" /\ pc = "wait" /\ pc' = "idle"
     /\ calls'[Len(calls')].err = "does not exist")
       => result' = "ok"

LegacyUntagged ==
    /\ ManagedStacks # {}
    /\ \A i \in ManagedStacks :
          stacks[i].StackName = "egress-static-nat" /\ ~HasOwnership(stacks[i].Tags)

\* C9: a stack that has the legacy static name and no ownership tags is found
\* and managed: Ensure creates no other stack, every call it makes on a stack
\* names the legacy stack, outside dry-run, without failing calls and with
\* known zone tags it deletes
\* the stack (empty cache) or fetches its template and updates it unless its
\* routes are the aggregated set, and the tags of an update hold both ownership
\* tags.
C9_LegacyManaged ==
    [][(EnsureStep /\ LegacyUntagged) =>
          /\ CountOps(calls', {"CreateStack"}) = 0
          /\ \A i \in 1..Len(calls') :
                calls'[i].op \in MutatingOps \cup {"GetTemplate"}
                   => calls'[i].StackName = "egress-static-nat"
          /\ \A i \in 1..Len(calls') :
                calls'[i].op = "UpdateStack" => HasOwnership(calls'[i].Tags)
          /\ (~dry /\ AllSucceeded(calls') /\ ZonesKnown)
                => IF CacheLen(configs') = 0
                   THEN CountOps(calls', {"DeleteStack"}) = 1
                   ELSE /\ CountOps(calls', {"GetTemplate"}) = 1
                        /\ \/ CountOps(calls', {"UpdateStack"}) = 1
                           \/ Aggregates(configs', getCIDRsFromTemplate(TheManaged.TemplateBody))]_vars

\* the legacy stack after an update that succeeded: it carries the ownership tags
C9_Witness ==
    /\ waitKind = "update"
    /\ waitName = "egress-static-nat"
    /\ pc = "idle"
    /\ result = "ok"
    /\ \E i \in 1..Len(stacks) :
          /\ stacks[i].StackName = "egress-static-nat"
          /\ stacks[i].StackStatus = "UPDATE_COMPLETE"
          /\ HasOwnership(stacks[i].Tags)
    /\ \E i \in 1..Len(calls) :
          calls[i].op = "UpdateStack" /\ HasOwnership(calls[i].Tags)

\* the step is a call of Ensure with the cache of the call before it, which
\* returned success
SecondEnsureStep ==
    /\ EnsureStep
    /\ ensureCalls > 0
    /\ pc = "idle"
    /\ result = "ok"
    /\ configs' = configs

\* C1: when Ensure(C) has returned success, a second Ensure(C) right after it
\* issues neither CreateStack nor UpdateStack, and the first has issued at most
\* one of them.
C1_Idempotent ==
    [][SecondEnsureStep =>
          /\ CountOps(calls, {"CreateStack", "UpdateStack"}) <= 1
          /\ CountOps(calls', {"CreateStack", "UpdateStack"}) = 0]_vars

\* the routes parsed from the template of the stack an update has waited for
UpdatedRoutes ==
    getCIDRsFromTemplate(stacks[CHOOSE i \in 1..Len(stacks) :
                                    stacks[i].StackName = waitName].TemplateBody)

\* C5: with a managed stack, a non-empty cache and routes in the live template
\* that differ from the aggregated set, Ensure (outside dry-run, when no call
\* before it fails and every zone tag is known) submits exactly one UpdateStack, and when that update has
\* succeeded the routes of the live template are the aggregated set.
C5_UpdateConverges ==
    [][/\ (/\ EnsureStep /\ ManagedStacks # {} /\ CacheLen(configs') > 0 /\ ~dry
           /\ ZonesKnown
           /\ ~Aggregates(configs', getCIDRsFromTemplate(TheManaged.TemplateBody))
           /\ \A i \in 1..Len(calls') : calls'[i].op # "UpdateStack" => calls'[i].err = "")
          => CountOps(calls', {"UpdateStack"}) = 1
       /\ (waitKind' = "update" /\ pc' = "idle" /\ result' = "ok")
          => Aggregates(configs', UpdatedRoutes')]_vars

DiscoveryOps == {"DescribeStacks", "DescribeVpcs", "DescribeInternetGateways",
                 "DescribeRouteTables", "GetTemplate"}
FailedOps(c) == {c[i].op : i \in {k \in 1..Len(c) : c[k].err # ""}}
SucceededOps(c) == {c[i].op : i \in {k \in 1..Len(c) : c[k].err = ""}}

C25_UnknownZone ==
    [][(EnsureStep /\ ~ZonesKnown /\ "DescribeRouteTables" \in SucceededOps(calls')) =>
          /\ pc' = "idle"
          /\ result' = "failed to generate stack spec: unrecognized availability zone"
          /\ CountOps(calls', MutatingOps) = 0
          /\ stacks' = stacks]_vars

\* outside dry-run, with a non-empty cache and no managed stack, the tables
\* were discovered, one with a known and one with an unknown zone, and Ensure
\* returned the error
C25_Witness ==
    /\ ensureCalls > 0
    /\ pc = "idle"
    /\ ~dry
    /\ ~ZonesKnown
    /\ \E t \in 1..Len(ec2.routeTables) :
          zoneIndex(availabilityZones, routeTableZone(ec2.routeTables[t]).zone).ok
    /\ CacheLen(configs) > 0
    /\ ManagedStacks = {}
    /\ AllSucceeded(calls)
    /\ "DescribeRouteTables" \in SucceededOps(calls)
    /\ result = "failed to generate stack spec: unrecognized availability zone"

\* C27: an Ensure call whose CreateStack failed returns, wrapped as the error
\* of the create path, AlreadyExistsError when the API reported that the stack
\* already exists and the error of the API otherwise; one whose UpdateStack
\* failed returns, wrapped as the error of the update path, DoesNotExistError
\* when the API reported that the stack does not exist and the error of the
\* API otherwise.
C27_TypedErrors ==
    [][EnsureStep =>
          \A i \in 1..Len(calls') :
             /\ (calls'[i].op = "CreateStack" /\ calls'[i].err # "") =>
                   /\ pc' = "idle"
                   /\ result' = "failed to create CF stack: " \o
                         (IF calls'[i].err = "AlreadyExistsException" THEN "AlreadyExistsError"
                          ELSE calls'[i].err)
             /\ (calls'[i].op = "UpdateStack" /\ calls'[i].err # "") =>
                   /\ pc' = "idle"
                   /\ result' = "failed to update CF stack: " \o
                         (IF calls'[i].err = "does not exist" THEN "DoesNotExistError"
                          ELSE calls'[i].err)]_vars

\* CreateStack reported that the stack already exists, and Ensure returned
\* the AlreadyExistsError
C27_Witness ==
    /\ ensureCalls > 0
    /\ pc = "idle"
    /\ calls # <<>>
    /\ calls[Len(calls)].op = "CreateStack"
    /\ calls[Len(calls)].err = "AlreadyExistsException"
    /\ result = "failed to create CF stack: AlreadyExistsError"

\* C36: an Ensure call issues at most one of CreateStack, UpdateStack and
\* DeleteStack: CreateStack only when the account has no managed stack,
\* DeleteStack only when it has one and the cache is empty, UpdateStack only
\* when it has one and the cache is not empty.
C36_OneStackOperation ==
    [][EnsureStep =>
          /\ CountOps(calls', {"CreateStack", "UpdateStack", "DeleteStack"}) <= 1
          /\ CountOps(calls', {"CreateStack"}) > 0 => ManagedStacks = {}
          /\ CountOps(calls', {"DeleteStack"}) > 0 =>
                ManagedStacks # {} /\ CacheLen(configs') = 0
          /\ CountOps(calls', {"UpdateStack"}) > 0 =>
                ManagedStacks # {} /\ CacheLen(configs') > 0
      ]_vars

\* a first call with an empty cache that found the managed stack: DeleteStack
\* is the one stack operation of its log
C36_Witness ==
    /\ ensureCalls = 1
    /\ CacheLen(configs) = 0
    /\ pc = "wait"
    /\ waitKind = "delete"
    /\ CountOps(calls, {"DeleteStack"}) = 1
    /\ CountOps(calls, {"CreateStack", "UpdateStack"}) = 0

\* the operations that address an existing stack
StackOps == {"GetTemplate", "UpdateStack", "DeleteStack", "UpdateTerminationProtection"}

\* the step is a poll of the wait of Ensure
PollStep == pc = "wait" /\ Len(calls') = Len(calls) + 1

\* C37: GetTemplate, UpdateStack, DeleteStack and UpdateTerminationProtection
\* of an Ensure call name the stack the discovery found, and so do the wait
\* for an update or a delete and its polls; CreateStack, its wait and its
\* polls name the stack by the name computed from the cluster id.
C37_DiscoveredName ==
    [][/\ EnsureStep =>
             /\ \A k \in 1..Len(calls') :
                   /\ calls'[k].op \in StackOps =>
                         ManagedStacks # {} /\ calls'[k].StackName = TheManaged.StackName
                   /\ calls'[k].op = "CreateStack" =>
                         calls'[k].StackName = "egress-static-nat-cluster-x"
             /\ (pc' = "wait" /\ waitKind' \in {"update", "delete"}) =>
                   waitName' = TheManaged.StackName
             /\ (pc' = "wait" /\ waitKind' = "create") =>
                   waitName' = "egress-static-nat-cluster-x"
       /\ PollStep =>
             /\ calls'[Len(calls')].op = "DescribeStacks"
             /\ calls'[Len(calls')].StackName = waitName
             /\ waitName' = waitName
      ]_vars

\* the account has the stack of the legacy name: Ensure has fetched its
\* template and submitted an update under that name, and the wait has polled it
C37_Witness ==
    /\ waitKind = "update"
    /\ waitName = "egress-static-nat"
    /\ \E k \in 1..Len(calls) :
          calls[k].op = "GetTemplate" /\ calls[k].StackName = "egress-static-nat"
    /\ \E k \in 1..Len(calls) :
          calls[k].op = "UpdateStack" /\ calls[k].StackName = "egress-static-nat"
    /\ calls[Len(calls)].op = "DescribeStacks"
    /\ calls[Len(calls)].StackName = "egress-static-nat"

\* the template is no JSON document, or one of its routes has a parameter
\* reference for a destination
Unreadable(template) ==
    \/ template.kind = "garbage"
    \/ \E nm \in DOMAIN template.Resources :
          /\ template.Resources[nm].Type = "AWS::EC2::Route"
          /\ template.Resources[nm].DestinationCidrBlock = RefVal(<<"DestinationCidrBlock1">>)

\* an Ensure call, outside dry-run and without a failing API call, that found
\* a managed stack with an unreadable template and has a non-empty cache
UnreadableStep ==
    /\ EnsureStep
    /\ ManagedStacks # {}
    /\ Unreadable(TheManaged.TemplateBody)
    /\ CacheLen(configs') > 0
    /\ ~dry
    /\ ZonesKnown
    /\ AllSucceeded(calls')

\* the template of the managed stack after the step
SubmittedRoutes ==
    getCIDRsFromTemplate(stacks'[CHOOSE i \in 1..Len(stacks') :
                                    stacks'[i].StackName = TheManaged.StackName].TemplateBody)

\* C33: when the live template of the managed stack is no JSON document or
\* has the old layout, Ensure with a non-empty cache does not fail: it submits one
\* UpdateStack and waits for it, and the template the stack has from then on
\* embeds the aggregated CIDRs of the cache.
C33_UnreadableTemplateUpdates ==
    [][UnreadableStep =>
          /\ CountOps(calls', {"UpdateStack"}) = 1
          /\ pc' = "wait"
          /\ waitKind' = "update"
          /\ Aggregates(configs', SubmittedRoutes)]_vars

\* the same for a VPC in which every route table has a zone tag
UnreadableTemplateUpdatesZoned ==
    [][(UnreadableStep /\ ec2 = TopoStandard) =>
          /\ CountOps(calls', {"UpdateStack"}) = 1
          /\ pc' = "wait"
          /\ waitKind' = "update"
          /\ Aggregates(configs', SubmittedRoutes)]_vars

\* the call k of the log c changes the termination protection of the stack
\* name to enable
IsProtectionCall(c, k, name, enable) ==
    /\ c[k].op = "UpdateTerminationProtection"
    /\ c[k].StackName = name
    /\ c[k].EnableTerminationProtection = enable

\* C32: with termination protection configured, a DeleteStack of an Ensure
\* call comes right after a call that disabled the protection of the stack
\* and succeeded, an UpdateStack right after a call that enabled it and
\* succeeded; and a call whose change of the protection failed issues neither
\* DeleteStack nor UpdateStack, returns an error and leaves the stacks alone.
C32_ProtectionFirst ==
    [][(EnsureStep /\ stackTerminationProtection) =>
          /\ \A k \in 1..Len(calls') :
                 /\ calls'[k].op = "DeleteStack" =>
                       /\ k > 1
                       /\ IsProtectionCall(calls', k - 1, calls'[k].StackName, FALSE)
                       /\ calls'[k - 1].err = ""
                 /\ calls'[k].op = "UpdateStack" =>
                       /\ k > 1
                       /\ IsProtectionCall(calls', k - 1, calls'[k].StackName, TRUE)
                       /\ calls'[k - 1].err = ""
          /\ (\E j \in 1..Len(calls') :
                 calls'[j].op = "UpdateTerminationProtection" /\ calls'[j].err # "") =>
                 /\ CountOps(calls', {"DeleteStack", "UpdateStack"}) = 0
                 /\ pc' = "idle"
                 /\ result' # "ok"
                 /\ stacks' = stacks
      ]_vars

\* Ensure was called with an empty cache and a managed stack, and the call that
\* disables the termination protection failed: no DeleteStack, the stack is there
C32_Witness ==
    /\ stackTerminationProtection
    /\ ensureCalls = 1
    /\ CacheLen(configs) = 0
    /\ ManagedStacks # {}
    /\ CountOps(calls, {"DeleteStack"}) = 0
    /\ \E j \in 1..Len(calls) :
          IsProtectionCall(calls, j, stacks[CHOOSE i \in ManagedStacks : TRUE].StackName, FALSE)
             /\ calls[j].err # ""

(***************************************************************************)
(* Properties of the stack discovery (checked under SpecDiscovery)         *)
(***************************************************************************)

\* C31: the discovery of an Ensure call selects no stack, or one that carries
\* both ownership tags with the expected values or has the legacy name; the
\* call reads the template of, updates, deletes and changes the protection
\* of such a stack only, and leaves every other stack as it is.
C31_DiscoverySelectsOwned ==
    [][EnsureStep =>
          /\ LET found == getEgressStack("none").stack
              IN  found # NilStack =>
                     /\ Managed(found)
                     /\ \E i \in 1..Len(stacks) : stacks[i] = found
          /\ \A k \in 1..Len(calls') :
                 calls'[k].op \in StackOps =>
                    \E i \in 1..Len(stacks) :
                       stacks[i].StackName = calls'[k].StackName /\ Managed(stacks[i])
          /\ \A i \in 1..Len(stacks) :
                 ~Managed(stacks[i]) => \E j \in 1..Len(stacks') : stacks'[j] = stacks[i]
      ]_vars

\* an account whose first stack has the cluster tag alone and whose second is
\* the managed one: Ensure has updated the second and the first is as it was
C31_Witness ==
    /\ ensureCalls = 1
    /\ Len(stacks) = 2
    /\ stacks[1] = ClusterTagStack
    /\ stacks[2].StackName = ManagedStack.StackName
    /\ \E k \in 1..Len(calls) :
          /\ calls[k].op = "UpdateStack"
          /\ calls[k].err = ""
          /\ calls[k].StackName = ManagedStack.StackName

(***************************************************************************)
(* Properties of the ordering pass (checked under SpecTables)              *)
(***************************************************************************)
\* the table has a zone tag and the Name dmz-<its zone>
StandardNamed(rt) ==
    /\ "AvailabilityZone" \in DOMAIN rt.Tags
    /\ "Name" \in DOMAIN rt.Tags
    /\ rt.Tags["Name"] = "dmz-" \o rt.Tags["AvailabilityZone"]
\* the position of the zone of a table in the configured zones
ZonePosition(rt) ==
    CHOOSE k \in 1..Len(availabilityZones) : availabilityZones[k] = rt.Tags["AvailabilityZone"]
\* the parameter names made for the table of the id in the parameters params
ParamsOfTable(params, id) == {n \in DOMAIN params.tableID : params.tableID[n] = id}
\* the lists that hold the route tables of the list l
Reorderings(l) == {[i \in 1..Len(l) |-> l[q[i]]] : q \in Perms(1..Len(l))}

\* after the sort the standard-named tables come before all others, in the
\* order of their zones
StandardTablesFirst(sorted) ==
    /\ \A i \in 1..Len(sorted), j \in 1..Len(sorted) :
          (StandardNamed(sorted[i]) /\ ~StandardNamed(sorted[j])) => i < j
    /\ \A i \in 1..Len(sorted), j \in 1..Len(sorted) :
          (StandardNamed(sorted[i]) /\ StandardNamed(sorted[j]) /\ i < j)
             => ZonePosition(sorted[i]) <= ZonePosition(sorted[j])
\* the parameter of every standard-named table is the one it has for every
\* other order of the listing
StableAssignment(listing, params) ==
    \A l \in Reorderings(listing) :
       \A i \in 1..Len(listing) :
          StandardNamed(listing[i]) =>
             ParamsOfTable(SortedParams(l).params, listing[i].RouteTableId)
                = ParamsOfTable(params, listing[i].RouteTableId)

\* C34: after the sort every route table named dmz-<its zone> is before every
\* table that is not, the standard-named tables are in the order of their
\* zones in the configured zones, and the parameter
\* AZ<i>RouteTableIDParameter of each standard-named table is the same for
\* every order in which DescribeRouteTables returns the tables.
C34_StableParameters ==
    tableParams # <<>> =>
       /\ StandardTablesFirst(tableParams[1].sorted)
       /\ StableAssignment(ec2.routeTables, tableParams[1].params)

\* the same when no two standard-named tables are in the same zone
StableParametersOnePerZone ==
    (/\ tableParams # <<>>
     /\ \A i \in 1..Len(ec2.routeTables), j \in 1..Len(ec2.routeTables) :
           (i # j /\ StandardNamed(ec2.routeTables[i]) /\ StandardNamed(ec2.routeTables[j]))
              => ZonePosition(ec2.routeTables[i]) # ZonePosition(ec2.routeTables[j]))
       => /\ StandardTablesFirst(tableParams[1].sorted)
          /\ StableAssignment(ec2.routeTables, tableParams[1].params)

(***************************************************************************)
(* Properties of findVPC (checked under SpecVPC)                           *)
(***************************************************************************)
\* findVPC has returned and DescribeVpcs, if it was called, did not fail
VpcResolved ==
    /\ vpcFound # <<>>
    /\ \A k \in 1..Len(vpcFound[1].calls) : vpcFound[1].calls[k].err = ""

DefaultVpcs == {ec2.vpcs[k].VpcId : k \in {j \in 1..Len(ec2.vpcs) : ec2.vpcs[j].IsDefault}}

\* C29: findVPC returns the configured id when one is set; otherwise the only
\* VPC when the account has exactly one; otherwise a VPC flagged default; and
\* it returns an error and no id when the account has no VPC, or several of
\* which none is flagged default.
C29_NetworkResolution ==
    VpcResolved =>
       LET out == vpcFound[1]
       IN  /\ vpcID # "" => out.err = "" /\ out.id = vpcID
           /\ (vpcID = "" /\ Len(ec2.vpcs) = 1) =>
                 out.err = "" /\ out.id = ec2.vpcs[1].VpcId
           /\ (vpcID = "" /\ Len(ec2.vpcs) > 1 /\ DefaultVpcs # {}) =>
                 out.err = "" /\ out.id \in DefaultVpcs
           /\ (vpcID = "" /\ (Len(ec2.vpcs) = 0 \/ (Len(ec2.vpcs) > 1 /\ DefaultVpcs = {}))) =>
                 out.err # "" /\ out.id = ""

\* no id is configured and the account has several VPCs, of which the first
\* is not flagged default and a later one is: findVPC returned the later one
C29_Witness ==
    /\ VpcResolved
    /\ vpcID = ""
    /\ Len(ec2.vpcs) > 1
    /\ ~ec2.vpcs[1].IsDefault
    /\ DefaultVpcs # {}
    /\ vpcFound[1].err = ""
    /\ vpcFound[1].id \in DefaultVpcs

(***************************************************************************)
(* Properties of the ConfigMap watcher (checked under SpecWatcher)         *)
(***************************************************************************)
\* the networks the values of DataValuePool stand for: the address masked
\* for the first, the third and the last; none for the values without a mask,
\* with a field above 255, with more than 32 mask bits or with three fields,
\* and for the empty value
ValueNets(v) ==
    IF v \in {DataValuePool[1], DataValuePool[8]} THEN {IPNet(10, 0, 0, 0, 16)}
    ELSE IF v = DataValuePool[3] THEN {IPNet(10, 0, 0, 0, 17)}
    ELSE {}
DataNets(data) == UNION {ValueNets(data[k]) : k \in 1..Len(data)}

\* the step is a handler of the informer sending the event of cmObject'
HandlerStep == \E w \in RunResources : pending[w] = <<>> /\ pending'[w] # <<>>
\* the step is the controller receiving the event of cmObject
WatcherEventReceived == \E w \in RunResources : pending[w] # <<>> /\ pending'[w] = <<>>

\* C30: the event of an added or updated ConfigMap names its Resource and
\* holds exactly the networks of its data values that parse, the others being
\* skipped; and when none of the values parses the event has no IP addresses
\* and the controller handles it as it handles the event of a deletion: the
\* cache loses the entry of the Resource and keeps the others, and Ensure is
\* called with it.
C30_WatcherEvents ==
    [][ /\ (HandlerStep /\ cmObject'[1].kind \in {"add", "update"}) =>
              LET cm == cmObject'[1].cm
              IN  pending'[cm.Name] = <<EgressConfig(cm.Name, DataNets(cm.Data))>>
        /\ (WatcherEventReceived
              /\ (cmObject[1].kind = "del" \/ DataNets(cmObject[1].cm.Data) = {})) =>
              LET cm == cmObject[1].cm
              IN  /\ pending[cm.Name][1].IPAddresses = {}
                  /\ configsCache' = [r \in DOMAIN configsCache \ {cm.Name} |-> configsCache[r]]
                  /\ ensureArg' = configsCache'
                  /\ inFlight' = inFlight + 1
      ]_vars

\* the controller has received the event of an updated ConfigMap with two
\* values of which none parses, for a Resource it had listed: the entry is gone
C30_Witness ==
    /\ cmObject # <<>>
    /\ cmObject[1].kind = "update"
    /\ Len(cmObject[1].cm.Data) = 2
    /\ DataNets(cmObject[1].cm.Data) = {}
    /\ \A w \in RunResources : pending[w] = <<>>
    /\ runPc = "eventEnsure"
    /\ latest[cmObject[1].cm.Name] = <<{}>>
    /\ cmObject[1].cm.Name \in DOMAIN bootCache
    /\ cmObject[1].cm.Name \notin DOMAIN configsCache

(***************************************************************************)
(* Properties of EgressController.Run                                      *)
(***************************************************************************)
Bootstrapped == runPc \notin {"list", "backoff"}
EventReceived == \E r \in RunResources : latest[r] # <<>>

\* C14: once Run has left the bootstrap, the cache maps every Resource named
\* by a received event to the IP set of the latest event for it when that set
\* is non-empty and has no entry for it when that set is empty; a Resource no
\* event has named has exactly the entry the bootstrap left.
C14_CacheFollowsEvents ==
    Bootstrapped =>
        \A r \in RunResources :
            /\ latest[r] = <<>> =>
                  /\ r \in DOMAIN configsCache <=> r \in DOMAIN bootCache
                  /\ r \in DOMAIN configsCache => configsCache[r] = bootCache[r]
            /\ latest[r] # <<>> /\ latest[r][1] # {} =>
                  /\ r \in DOMAIN configsCache
                  /\ configsCache[r] = latest[r][1]
            /\ latest[r] # <<>> /\ latest[r][1] = {} => r \notin DOMAIN configsCache

\* the event for a listed Resource was a deletion, the other Resource still
\* has its listed entry
C14_Witness ==
    /\ runPc = "eventEnsure"
    /\ 1 \in DOMAIN bootCache
    /\ latest[1] = <<{}>>
    /\ 1 \notin DOMAIN configsCache
    /\ latest[2] = <<>>
    /\ 2 \in DOMAIN configsCache

NoEventReceived == \A r \in RunResources : latest[r] = <<>>
HoldsListed(cache) ==
    \A r \in DOMAIN listed : listed[r] # {} => r \in DOMAIN cache /\ cache[r] = listed[r]

\* C15: before a listing has succeeded no Ensure is called and no event is
\* received; a failed listing leads to the sleep and from there to another
\* listing; the successful listing is followed by one Ensure, called with a
\* cache that holds every listed entry with a non-empty IP set and no entry
\* with an empty one, while no event has been received and no Ensure has
\* returned, and that Ensure returns to the select.
C15_Bootstrap ==
    /\ [](~Bootstrapped => inFlight = 0 /\ ensureErr = "" /\ NoEventReceived
                           /\ configsCache = <<>>)
    /\ [](runPc = "bootEnsure" =>
             /\ inFlight = 1 /\ ensureErr = "" /\ NoEventReceived
             /\ ensureArg = configsCache
             /\ HoldsListed(ensureArg)
             /\ \A r \in DOMAIN ensureArg : ensureArg[r] # {})
    /\ [](runPc \in {"tickEnsure", "eventEnsure"} => ensureErr # "")
    /\ [][runPc = "list" /\ runPc' # "list" => runPc' \in {"backoff", "bootEnsure"}]_vars
    /\ [][runPc = "backoff" /\ runPc' # "backoff" => runPc' = "list"]_vars
    /\ [][runPc = "bootEnsure" /\ runPc' # "bootEnsure" => runPc' = "select" /\ inFlight' = 0]_vars
    /\ (runPc = "backoff" ~> runPc = "list")

\* the Ensure of the bootstrap is in progress, the listing has an entry to
\* keep and an entry to leave out, and a watcher is already sending an event
C15_Witness ==
    /\ runPc = "bootEnsure"
    /\ \E r \in DOMAIN listed : listed[r] = {}
    /\ \E r \in DOMAIN listed : listed[r] # {}
    /\ \E w \in RunResources : pending[w] # <<>>

ReceiveStep == \E w \in RunResources : pending[w] # <<>> /\ pending'[w] = <<>>

\* C16: an event leaves its watcher only when Run is at the select; the step
\* that receives it applies it to the cache as it stood, records it as the
\* latest event of its Resource, and calls Ensure with the cache it produced;
\* while that Ensure is in progress the cache it was given is the cache, no
\* other event is received, and the cache reflects every event received so
\* far.
C16_EventsInOrder ==
    /\ [][ReceiveStep =>
             /\ runPc = "select" /\ runPc' = "eventEnsure"
             /\ \E w \in RunResources :
                   /\ pending[w] # <<>>
                   /\ pending' = [pending EXCEPT ![w] = <<>>]
                   /\ configsCache' = ApplyEvent(configsCache, pending[w][1])
                   /\ latest'[w] = <<pending[w][1].IPAddresses>>
                   /\ \A r \in RunResources \ {w} : latest'[r] = latest[r]
             /\ inFlight = 0 /\ inFlight' = 1
             /\ ensureArg' = configsCache']_vars
    /\ [][runPc = "eventEnsure" =>
             /\ ~ReceiveStep
             /\ latest' = latest
             /\ configsCache' = configsCache
             /\ ensureArg' = ensureArg]_vars
    /\ [](runPc = "eventEnsure" =>
             /\ ensureArg = configsCache
             /\ \A r \in RunResources :
                   latest[r] # <<>> =>
                      IF latest[r][1] = {} THEN r \notin DOMAIN ensureArg
                      ELSE r \in DOMAIN ensureArg /\ ensureArg[r] = latest[r][1])

\* events of both Resources have been received, and the Ensure after the last
\* one is in progress while both watchers are sending the next events
C16_Witness ==
    /\ runPc = "eventEnsure"
    /\ \A r \in RunResources : latest[r] # <<>>
    /\ \A w \in RunResources : pending[w] # <<>>
    /\ \E r \in RunResources : r \in DOMAIN ensureArg

\* C17: at most one call of Ensure is in progress, and while one is, no other
\* call starts, the cache does not change and no event is received, whatever
\* the watchers and the caller of Run do meanwhile.
C17_OneEnsureAtATime ==
    /\ [](inFlight \in {0, 1})
    /\ [](inFlight = 1 <=> runPc \in {"bootEnsure", "tickEnsure", "eventEnsure"})
    /\ [][inFlight > 0 =>
             /\ inFlight' <= inFlight
             /\ configsCache' = configsCache
             /\ latest' = latest
             /\ ~ReceiveStep]_vars

\* an Ensure started by the timer is in progress while both watchers are
\* sending an event and the context has been canceled
C17_Witness ==
    /\ inFlight = 1
    /\ runPc = "tickEnsure"
    /\ \A w \in RunResources : pending[w] # <<>>
    /\ canceled

\* C18: when Ensure returns an error, Run is at the select again and has not
\* returned, and the cache is the one the call was given and is not changed
\* by the return.
C18_ErrorKeepsRunning ==
    [][inFlight' < inFlight /\ ensureErr' = "error" =>
          /\ runPc' = "select"
          /\ configsCache' = configsCache
          /\ configsCache' = ensureArg
          /\ inFlight' = 0]_vars

\* an Ensure called with a non-empty cache has returned an error, and Run
\* waits at the select with that cache
C18_Witness ==
    /\ runPc = "select"
    /\ ensureErr = "error"
    /\ configsCache # <<>>
    /\ configsCache = ensureArg
    /\ ~canceled

\* C19: whenever Run waits at the select, and in particular after an Ensure
\* that returned an error, another call of Ensure starts or the context is
\* canceled, even when no watcher sends an event.
C19_EnsureAgain ==
    /\ (runPc = "select") ~> (inFlight = 1 \/ canceled)
    /\ (runPc = "select" /\ ensureErr = "error") ~>
           (runPc \in {"tickEnsure", "eventEnsure"} \/ canceled)

\* the timer has started an Ensure after the Ensure of the bootstrap returned
\* an error, no event was received and no watcher is sending one
C19_Witness ==
    /\ runPc = "tickEnsure"
    /\ ensureErr = "error"
    /\ NoEventReceived
    /\ \A w \in RunResources : pending[w] = <<>>
    /\ ~canceled

\* C20: Run returns only after the context was canceled, and once the context
\* is canceled Run eventually returns, wherever it is.
C20_RunEndsOnCancel ==
    /\ [](runPc = "returned" => canceled)
    /\ canceled ~> (runPc = "returned")

\* what holds of the end of Run: it returns only after the cancellation, and
\* it returns after a cancellation once a listing has succeeded
RunEndsOnceBootstrapped ==
    /\ [](runPc = "returned" => canceled)
    /\ (canceled /\ Bootstrapped) ~> (runPc = "returned")

(***************************************************************************)
(* Properties of waitForStack                                              *)
(***************************************************************************)
InWait == pc \in {"wait", "sleep"}
\* the step is a poll that showed the status of the stack
PollShows(status) ==
    /\ pc = "wait"
    /\ Len(calls') = Len(calls) + 1
    /\ calls'[Len(calls')].err = ""
    /\ StackIndex(stacks, waitName) # 0
    /\ stacks[StackIndex(stacks, waitName)].StackStatus = status

\* C21: once the context of Ensure is canceled, a wait between two polls ends
\* without waiting for another interval, and it ends with a cancellation
\* error.
C21_WaitEndsOnCancel ==
    /\ [][canceled /\ pc = "sleep" => pc' # "wait"]_vars
    /\ [][canceled /\ pc = "sleep" /\ pc' = "idle" =>
             result' = WaitResult(waitKind, "context canceled")]_vars

\* what holds of a cancellation: the waits of an update and of a delete end
\* without another interval, with the error of the deadline or with the
\* error of the poll
UpdateDeleteWaitEndsOnCancel ==
    /\ [][canceled /\ waitKind # "create" /\ pc = "sleep" => pc' # "wait"]_vars
    /\ [][canceled /\ waitKind # "create" /\ InWait /\ pc' = "idle" /\ ~DeadlinePassed(elapsed)
             /\ ~(\E status \in AllStatuses : PollShows(status)) =>
             result' \in {WaitResult(waitKind, "wait for stack timeout exceeded"),
                          WaitResult(waitKind, "context canceled"),
                          WaitResult(waitKind, "DescribeStacks failed"),
                          WaitResult(waitKind, "does not exist")}]_vars

\* C22: a poll that shows a success status ends the wait with success; a poll
\* that shows one of the six failure statuses ends it with the error of that
\* status, and no further poll is made; a poll that shows any other status
\* leaves the wait between two polls, from where it polls again when the
\* interval has passed.
C22_StatusClassification ==
    /\ [][\A status \in AllStatuses : PollShows(status) =>
             /\ status \in SuccessStatuses => pc' = "idle" /\ result' = "ok"
             /\ status \in FailureStatuses =>
                   /\ pc' = "idle"
                   /\ result' = WaitResult(waitKind, "wait for stack failed with " \o status)
             /\ status \notin SuccessStatuses \cup FailureStatuses =>
                   pc' = "sleep" /\ result' = ""]_vars
    /\ [][pc = "idle" => pc' = "idle" /\ calls' = calls /\ result' = result]_vars
    /\ [][pc = "sleep" /\ pc' = "wait" => elapsed' = elapsed + 1 /\ calls' = calls]_vars

\* the wait of a create has ended, at its third poll, on ROLLBACK_COMPLETE
C22_Witness ==
    /\ pc = "idle"
    /\ waitKind = "create"
    /\ Len(calls) = 3
    /\ AllSucceeded(calls)
    /\ result = WaitResult("create", "wait for stack failed with ROLLBACK_COMPLETE")

\* C23: every wait ends; after the last interval that fits into the deadline
\* the wait between two polls ends, for a create, an update and a delete,
\* whether the caller has canceled or not; a wait that ends between two polls
\* returns the timeout error; and no wait polls more often than the deadline
\* has room for.
C23_WaitTerminates ==
    /\ InWait ~> (pc = "idle")
    /\ [][pc = "sleep" /\ DeadlinePassed(elapsed) /\ pc' # pc =>
             /\ pc' = "idle"
             /\ result' = WaitResult(waitKind, "wait for stack timeout exceeded")]_vars
    /\ [][pc = "sleep" /\ pc' = "idle" =>
             result' = WaitResult(waitKind, "wait for stack timeout exceeded")]_vars
    /\ [](Len(calls) <= MaxWaitIntervals + 1)
    /\ [](pc = "sleep" /\ DeadlinePassed(elapsed) => ENABLED CtxDone)

\* the wait of a create that nobody canceled has returned the timeout error
\* after polls that all showed a status in progress
C23_Witness ==
    /\ pc = "idle"
    /\ waitKind = "create"
    /\ ~canceled
    /\ Len(calls) = MaxWaitIntervals + 1
    /\ AllSucceeded(calls)
    /\ result = WaitResult("create", "wait for stack timeout exceeded")

(***************************************************************************)
(* Properties of the process                                               *)
(***************************************************************************)
\* C26: no call of Ensure ends the process: whatever the NAT CIDR blocks, the
\* topology and the failures of the API, the call returns and Run is at its
\* select again.
C26_EnsureNeverEndsProcess ==
    /\ [](runPc # "crashed")
    /\ [][calls' # calls => runPc' = "select" /\ ensureErr' \in {"ok", "error"}]_vars

\* what holds of the process: with a NAT CIDR block for every availability
\* zone no call of Ensure ends it
NoPanicWithABlockPerZone ==
    [](Len(pNatCidrBlocks) >= Len(availabilityZones) => runPc # "crashed")

(***************************************************************************)
(* The NAT gateway of a route (checked under SpecTables)                   *)
(***************************************************************************)
\* the tables of the listing that the route table parameter param stands for
TablesOfParam(param) ==
    {k \in 1..Len(ec2.routeTables) :
        /\ param \in DOMAIN tableParams[1].params.tableID
        /\ ec2.routeTables[k].RouteTableId = tableParams[1].params.tableID[param]}

\* C38: in the template generateStackSpec generated, every route through the
\* table of a route table parameter, a table tagged with the zone z, has the
\* NAT gateway NATGateway<k> where the first position of z in the configured
\* availability zones is k, a NAT gateway of the template that is in z, at
\* whatever ordinal the sort placed the table.
C38_RouteThroughZoneGateway ==
    (tableParams # <<>> /\ tableParams[1].params.err = "") =>
        \A e \in RouteEntries(tplResult) :
           LET route == tplResult.Resources[e].value
           IN  /\ route.RouteTableId.kind = "ref"
               /\ TablesOfParam(route.RouteTableId.val) # {}
               /\ \A t \in TablesOfParam(route.RouteTableId.val) :
                     /\ tagDefaultAZKeyRouteTableID \in DOMAIN ec2.routeTables[t].Tags
                     /\ \E k \in 1..Len(availabilityZones) :
                           /\ availabilityZones[k] =
                                  ec2.routeTables[t].Tags[tagDefaultAZKeyRouteTableID]
                           /\ \A j \in 1..(k - 1) : availabilityZones[j] # availabilityZones[k]
                           /\ route.NatGatewayId = RefVal(<<"NATGateway">> \o Itoa(k))
                           /\ \E g \in 1..Len(tplResult.Resources) :
                                 /\ tplResult.Resources[g].name = <<"NATGateway">> \o Itoa(k)
                                 /\ tplResult.Resources[g].value.Type = "AWS::EC2::NatGateway"
                           /\ NATGatewayZone(k) =
                                  ec2.routeTables[t].Tags[tagDefaultAZKeyRouteTableID]

\* three tables, two of the first zone and one of the second: the routes of
\* the second and of the third parameter go through the NAT gateways of the
\* first and of the second zone
C38_Witness ==
    /\ tableParams # <<>>
    /\ tableParams[1].params.err = ""
    /\ \E e \in RouteEntries(tplResult) :
          /\ tplResult.Resources[e].value.RouteTableId = RefVal(RouteTableParamName(2))
          /\ tplResult.Resources[e].value.NatGatewayId = RefVal(<<"NATGateway", "1">>)
    /\ \E e \in RouteEntries(tplResult) :
          /\ tplResult.Resources[e].value.RouteTableId = RefVal(RouteTableParamName(3))
          /\ tplResult.Resources[e].value.NatGatewayId = RefVal(<<"NATGateway", "2">>)

(***************************************************************************)
(* The shutdown of run (checked under SpecPipelineFair)                    *)
(***************************************************************************)
\* C39: once the signal has arrived, run returns from wg.Wait (or log.Fatalf
\* has ended the process), in whatever order the goroutines take their steps.
C39_ShutdownCompletes == (mainPc = "quit") ~> (mainPc \in {"shutdown", "fatal"})

\* a worker returns only for a quit message, each of which one worker
\* received, and run returns only after all four goroutines
ShutdownOnlyAfterQuits ==
    /\ mainPc \in {"signal", "quit", "wait", "shutdown"} =>
          quitsSent = Cardinality({w \in {"watcher", "merger", "provider"} :
                                     (w = "watcher" /\ watcherPc = "done")
                                     \/ (w = "merger" /\ mergerPc = "done")
                                     \/ (w = "provider" /\ providerPc = "done")})
    /\ mainPc = "shutdown" =>
          initPc = "done" /\ watcherPc = "done" /\ mergerPc = "done" /\ providerPc = "done"
====
